---- MODULE Spec2Model ----
(***************************************************************************)
(* A model of ssm-term-rs: the wire codec of the session-manager crate     *)
(* (message_parser.rs), the legacy codec of the first client               *)
(* (src/src/structs.rs), the receive loops of the two clients              *)
(* (client/src/main.rs and src/src/main.rs), the web socket channel of the *)
(* session-manager crate (communicator/web_sockets_channel.rs) and its     *)
(* Encrypter (encryption/encrypter.rs).                                    *)
(*                                                                         *)
(* Byte buffers (&[u8], Vec<u8>) are sequences of 0..255.  A Rust String   *)
(* is the sequence of its UTF-8 bytes.  Rust's zero-based slice            *)
(* b[lo..hi] is SubSeq(b, lo + 1, hi).  Integers read from or written to   *)
(* the wire keep their byte layout; the values the model draws stay below  *)
(* 2^31 (the range of TLC's integers).                                     *)
(***************************************************************************)
EXTENDS Integers, Sequences, FiniteSets, TLC

VARIABLES
    env,              \* codec: the envelope handed to the encoder
    wire,             \* codec: the byte buffer between encoder and decoder
    result,           \* codec: what the decoder returned
    pc,               \* codec: "start", "wire", "done"
    tampered,         \* codec: the fields of the buffer rewritten in transit
    sequence_number,  \* client: main's sequence_number counter
    sent,             \* client: frames handed to the WebSocket, in order
    received,         \* client: frames taken from the WebSocket, in order
    acks,             \* client: the AcknowledgeContent built for each ack
    stdout,           \* client: what was written to the terminal, in order
    cstate,           \* client: position of main
    is_open,          \* channel: WebSocketChannel.is_open
    connection,       \* channel: WebSocketChannel.connection, "None" or "Some"
    ws_lock,          \* channel: the holder of the connection's Mutex
    retry_count,      \* channel: the receive loop's retry_count
    task,             \* channel: position of each task
    handlers,         \* channel: whether on_message and on_error are set
    ws_in,            \* channel: the messages ws.next() yielded, in order
    ws_out,           \* channel: the messages written to the connection
    on_message_calls, \* channel: the arguments of the on_message calls
    on_error_calls,   \* channel: the number of on_error calls
    recv_errors,      \* channel: the number of errors ws.next() yielded
    pending,          \* channel: the message of the send_message in progress
    send_returns,     \* channel: what each send_message call returned
    closes,           \* channel: the number of close() calls that returned
    blobs,            \* encrypter: what kms_generate_data_key returned
    encrypter,        \* encrypter: the Encrypter's keys
    encrypted,        \* encrypter: each encrypt call, in order
    decrypted,        \* encrypter: each decrypt call, in order
    outgoing_message_buffer,      \* data channel: the StreamingMessages not yet acknowledged
    stream_data_sequence_number,  \* data channel: the next outgoing sequence number
    round_trip,       \* data channel: round trip time, its variation, the timeout
    system_time,      \* data channel: the clock, in units of CLOCK_GRANULARITY
    transport,        \* data channel: the frames handed to the transport, in order
    failures,         \* data channel: the delivery failures reported, in order
    last_op           \* data channel: the last operation and what it did

codecVars == <<env, wire, result, pc, tampered>>
clientVars == <<sequence_number, sent, received, acks, stdout, cstate>>
chanVars == <<is_open, connection, ws_lock, retry_count, task, handlers, ws_in, ws_out,
              on_message_calls, on_error_calls, recv_errors, pending, send_returns, closes>>
cryptVars == <<blobs, encrypter, encrypted, decrypted>>

relVars == <<outgoing_message_buffer, stream_data_sequence_number, round_trip, system_time,
             transport, failures, last_op>>

vars == <<codecVars, clientVars, chanVars, cryptVars, relVars>>

(***************************************************************************)
(* Bytes and integers                                                      *)
(***************************************************************************)
Byte == 0..255

Slice(b, lo, hi) == SubSeq(b, lo + 1, hi)

SliceFrom(b, lo) == SubSeq(b, lo + 1, Len(b))

Repeat(x, n) == [i \in 1..n |-> x]

\* u32::to_be_bytes
to_be_bytes_u32(n) ==
    <<(n \div 16777216) % 256, (n \div 65536) % 256, (n \div 256) % 256, n % 256>>

\* u64::to_be_bytes, for the values below 2^31 the model draws
to_be_bytes_u64(n) == <<0, 0, 0, 0>> \o to_be_bytes_u32(n)

\* i64::to_be_bytes: two's complement
to_be_bytes_i64(n) ==
    IF n >= 0 THEN to_be_bytes_u64(n)
    ELSE [i \in 1..8 |-> 255 - to_be_bytes_u64(-n - 1)[i]]

\* BigEndian::read_u32
read_u32(b) == b[1] * 16777216 + b[2] * 65536 + b[3] * 256 + b[4]

\* BigEndian::read_u64
read_u64(b) == read_u32(SubSeq(b, 5, 8))

\* BigEndian::read_i64: two's complement
read_i64(b) ==
    IF b[1] < 128 THEN read_u64(b)
    ELSE -read_u64([i \in 1..8 |-> 255 - b[i]]) - 1

\* BigEndian::read_i32: two's complement
read_i32(b) ==
    IF b[1] < 128 THEN read_u32(b)
    ELSE -read_u32([i \in 1..4 |-> 255 - b[i]]) - 1

\* i32 written big-endian (BigEndian::write_i32)
to_be_bytes_i32(n) ==
    IF n >= 0 THEN to_be_bytes_u32(n)
    ELSE [i \in 1..4 |-> 255 - to_be_bytes_u32(-n - 1)[i]]

(***************************************************************************)
(* UTF-8 (std::str::from_utf8, String::from_utf8_lossy, str::trim)         *)
(***************************************************************************)
utf8_char_width(b) ==
    IF b < 128 THEN 1
    ELSE IF b >= 194 /\ b <= 223 THEN 2
    ELSE IF b >= 224 /\ b <= 239 THEN 3
    ELSE IF b >= 240 /\ b <= 244 THEN 4
    ELSE 0

safe_get(s, i) == IF i <= Len(s) THEN s[i] ELSE 0

IsCont(x) == x >= 128 /\ x <= 191

SecondOk3(b, x) ==
    \/ b = 224 /\ x \in 160..191
    \/ b \in 225..236 /\ x \in 128..191
    \/ b = 237 /\ x \in 128..159
    \/ b \in 238..239 /\ x \in 128..191

SecondOk4(b, x) ==
    \/ b = 240 /\ x \in 144..191
    \/ b \in 241..243 /\ x \in 128..191
    \/ b = 244 /\ x \in 128..143

\* The character, or the maximal invalid sequence, that starts at s[i].
Utf8Chunk(s, i) ==
    LET b == s[i]
        w == utf8_char_width(b)
    IN  IF w = 1 THEN [valid |-> TRUE, len |-> 1]
        ELSE IF w = 2 THEN
            IF IsCont(safe_get(s, i + 1)) THEN [valid |-> TRUE, len |-> 2]
            ELSE [valid |-> FALSE, len |-> 1]
        ELSE IF w = 3 THEN
            IF ~SecondOk3(b, safe_get(s, i + 1)) THEN [valid |-> FALSE, len |-> 1]
            ELSE IF ~IsCont(safe_get(s, i + 2)) THEN [valid |-> FALSE, len |-> 2]
            ELSE [valid |-> TRUE, len |-> 3]
        ELSE IF w = 4 THEN
            IF ~SecondOk4(b, safe_get(s, i + 1)) THEN [valid |-> FALSE, len |-> 1]
            ELSE IF ~IsCont(safe_get(s, i + 2)) THEN [valid |-> FALSE, len |-> 2]
            ELSE IF ~IsCont(safe_get(s, i + 3)) THEN [valid |-> FALSE, len |-> 3]
            ELSE [valid |-> TRUE, len |-> 4]
        ELSE [valid |-> FALSE, len |-> 1]

\* The index of the first byte at or after s[i] that is not ASCII, or
\* Len(s) + 1: the decoders step over a run of ASCII in one go.
NextNonAscii(s, i) ==
    IF \E j \in i..Len(s) : s[j] >= 128
    THEN CHOOSE j \in i..Len(s) : s[j] >= 128 /\ \A k \in i..(j - 1) : s[k] < 128
    ELSE Len(s) + 1

RECURSIVE Utf8ValidFrom(_, _)
Utf8ValidFrom(s, i) ==
    LET j == NextNonAscii(s, i)
    IN  IF j > Len(s) THEN TRUE
        ELSE LET c == Utf8Chunk(s, j)
             IN  c.valid /\ Utf8ValidFrom(s, j + c.len)

\* std::str::from_utf8(b).is_ok()
from_utf8_ok(b) == Utf8ValidFrom(b, 1)

\* U+FFFD REPLACEMENT CHARACTER in UTF-8
REPLACEMENT == <<239, 191, 189>>

RECURSIVE LossyFromDropping(_, _)
LossyFromDropping(s, i) ==
    LET j == NextNonAscii(s, i)
    IN  IF j > Len(s) THEN SubSeq(s, i, Len(s))
        ELSE LET c == Utf8Chunk(s, j)
             IN  SubSeq(s, i, j - 1)
                     \o (IF c.valid THEN SubSeq(s, j, j + c.len - 1) ELSE <<>>)
                     \o LossyFromDropping(s, j + c.len)

RECURSIVE LossyFrom(_, _)
LossyFrom(s, i) ==
    LET j == NextNonAscii(s, i)
    IN  IF j > Len(s) THEN SubSeq(s, i, Len(s))
        ELSE LET c == Utf8Chunk(s, j)
             IN  SubSeq(s, i, j - 1)
                     \o (IF c.valid THEN SubSeq(s, j, j + c.len - 1) ELSE REPLACEMENT)
                     \o LossyFrom(s, j + c.len)

\* A decoder that drops invalid sequences instead of replacing them.
from_utf8_lossy_dropping(b) == LossyFromDropping(b, 1)

\* String::from_utf8_lossy(b).to_string()
from_utf8_lossy(b) == LossyFrom(b, 1)

\* The characters with the Unicode property White_Space, in UTF-8.
WhiteSpace ==
    {<<c>> : c \in 9..13} \cup {<<32>>, <<194, 133>>, <<194, 160>>, <<225, 154, 128>>}
    \cup {<<226, 128, c>> : c \in 128..138}
    \cup {<<226, 128, 168>>, <<226, 128, 169>>, <<226, 128, 175>>,
          <<226, 129, 159>>, <<227, 128, 128>>}

IsPrefix(p, s) == Len(p) <= Len(s) /\ SubSeq(s, 1, Len(p)) = p

IsSuffix(p, s) == Len(p) <= Len(s) /\ SubSeq(s, Len(s) - Len(p) + 1, Len(s)) = p

RECURSIVE trim_start(_)
trim_start(s) ==
    IF \E w \in WhiteSpace : IsPrefix(w, s)
    THEN LET w == CHOOSE x \in WhiteSpace : IsPrefix(x, s)
         IN  trim_start(SubSeq(s, Len(w) + 1, Len(s)))
    ELSE s

RECURSIVE trim_end(_)
trim_end(s) ==
    IF \E w \in WhiteSpace : IsSuffix(w, s)
    THEN LET w == CHOOSE x \in WhiteSpace : IsSuffix(x, s)
         IN  trim_end(SubSeq(s, 1, Len(s) - Len(w)))
    ELSE s

\* str::trim: strips leading and trailing White_Space; U+0000 is not White_Space
trim(s) == trim_end(trim_start(s))

\* str::trim_end_matches('\0')
RECURSIVE trim_end_matches_nul(_)
trim_end_matches_nul(s) ==
    IF Len(s) > 0 /\ s[Len(s)] = 0
    THEN trim_end_matches_nul(SubSeq(s, 1, Len(s) - 1))
    ELSE s

(***************************************************************************)
(* Message and payload types (session_manager client_message.rs)           *)
(***************************************************************************)
\* enum MessageType with strum's snake_case Display / EnumString strings
MessageTypeString ==
    [InteractiveShell |-> <<105,110,116,101,114,97,99,116,105,118,101,95,115,104,101,108,108>>,
     AgentTaskReply |-> <<97,103,101,110,116,95,116,97,115,107,95,114,101,112,108,121>>,
     AgentTaskComplete |-> <<97,103,101,110,116,95,116,97,115,107,95,99,111,109,112,108,101,116,101>>,
     AgentTaskAcknowledge |-> <<97,103,101,110,116,95,116,97,115,107,95,97,99,107,110,111,119,108,101,100,103,101>>,
     Acknowledge |-> <<97,99,107,110,111,119,108,101,100,103,101>>,
     AgentSessionState |-> <<97,103,101,110,116,95,115,101,115,115,105,111,110,95,115,116,97,116,101>>,
     ChannelClosed |-> <<99,104,97,110,110,101,108,95,99,108,111,115,101,100>>,
     OutputStreamData |-> <<111,117,116,112,117,116,95,115,116,114,101,97,109,95,100,97,116,97>>,
     InputStreamData |-> <<105,110,112,117,116,95,115,116,114,101,97,109,95,100,97,116,97>>,
     PausePublication |-> <<112,97,117,115,101,95,112,117,98,108,105,99,97,116,105,111,110>>,
     StartPublication |-> <<115,116,97,114,116,95,112,117,98,108,105,99,97,116,105,111,110>>,
     AgentJob |-> <<97,103,101,110,116,95,106,111,98>>,
     AgentJobAck |-> <<97,103,101,110,116,95,106,111,98,95,97,99,107>>,
     AgentJobReplyAck |-> <<97,103,101,110,116,95,106,111,98,95,114,101,112,108,121,95,97,99,107>>,
     AgentJobReply |-> <<97,103,101,110,116,95,106,111,98,95,114,101,112,108,121>>]

MessageType == DOMAIN MessageTypeString

\* Display for MessageType
MessageType_to_string(mt) == MessageTypeString[mt]

\* FromStr for MessageType (strum EnumString): an exact match or an error
MessageType_from_str(s) ==
    IF \E mt \in MessageType : MessageTypeString[mt] = s
    THEN [ok |-> TRUE, val |-> CHOOSE mt \in MessageType : MessageTypeString[mt] = s]
    ELSE [ok |-> FALSE]

\* enum PayloadType, by discriminant 0..12
PayloadTypeVariants ==
    <<"Null", "Output", "Error", "Size", "Parameter", "HandshakeRequestPayloadType",
      "HandshakeResponsePayloadType", "HandshakeCompletePayloadType",
      "EncChallengeRequest", "EncChallengeResponse", "Flag", "StdErr", "ExitCode">>

PayloadType == {PayloadTypeVariants[i] : i \in 1..Len(PayloadTypeVariants)}

\* impl From<PayloadType> for u32
PayloadType_into_u32(pt) ==
    (CHOOSE i \in 1..Len(PayloadTypeVariants) : PayloadTypeVariants[i] = pt) - 1

\* impl From<u32> for PayloadType: panics outside 0..12
PayloadType_from_u32(value) ==
    IF value >= 0 /\ value < Len(PayloadTypeVariants)
    THEN [panic |-> FALSE, val |-> PayloadTypeVariants[value + 1]]
    ELSE [panic |-> TRUE]

(***************************************************************************)
(* Field layout (impl ClientMessage, client_message.rs 258-286)            *)
(***************************************************************************)
HL_LENGTH == 4
MESSAGE_TYPE_LENGTH == 32
SCHEMA_VERSION_LENGTH == 4
CREATED_DATE_LENGTH == 8
SEQUENCE_NUMBER_LENGTH == 8
FLAGS_LENGTH == 8
MESSAGE_ID_LENGTH == 16
PAYLOAD_DIGEST_LENGTH == 32
PAYLOAD_TYPE_LENGTH == 4
PAYLOAD_LENGTH_LENGTH == 4

HL_OFFSET == 0
MESSAGE_TYPE_OFFSET == HL_OFFSET + HL_LENGTH
SCHEMA_VERSION_OFFSET == MESSAGE_TYPE_OFFSET + MESSAGE_TYPE_LENGTH
CREATED_DATE_OFFSET == SCHEMA_VERSION_OFFSET + SCHEMA_VERSION_LENGTH
SEQUENCE_NUMBER_OFFSET == CREATED_DATE_OFFSET + CREATED_DATE_LENGTH
FLAGS_OFFSET == SEQUENCE_NUMBER_OFFSET + SEQUENCE_NUMBER_LENGTH
MESSAGE_ID_OFFSET == FLAGS_OFFSET + FLAGS_LENGTH
PAYLOAD_DIGEST_OFFSET == MESSAGE_ID_OFFSET + MESSAGE_ID_LENGTH
PAYLOAD_TYPE_OFFSET == PAYLOAD_DIGEST_OFFSET + PAYLOAD_DIGEST_LENGTH
PAYLOAD_LENGTH_OFFSET == PAYLOAD_TYPE_OFFSET + PAYLOAD_TYPE_LENGTH
PAYLOAD_OFFSET == PAYLOAD_LENGTH_OFFSET + PAYLOAD_LENGTH_LENGTH

(***************************************************************************)
(* The codec of session_manager (message_parser.rs)                        *)
(***************************************************************************)
DeserializationError == [status |-> "Err", error |-> "DeserializationError"]

Panicked == [status |-> "Panic"]

Value(v) == [ok |-> TRUE, val |-> v]

Failed == [ok |-> FALSE]

\* check_valid::<T>, size = size_of::<T>()
check_valid(byte_array, offset, size) == ~(offset + size > Len(byte_array))

get_u32(byte_array, offset) ==
    IF check_valid(byte_array, offset, 4)
    THEN Value(read_u32(Slice(byte_array, offset, offset + 4)))
    ELSE Failed

get_u64(byte_array, offset) ==
    IF check_valid(byte_array, offset, 8)
    THEN Value(read_u64(Slice(byte_array, offset, offset + 8)))
    ELSE Failed

get_i64(byte_array, offset) ==
    IF check_valid(byte_array, offset, 8)
    THEN Value(read_i64(Slice(byte_array, offset, offset + 8)))
    ELSE Failed

get_string(byte_array, offset, string_length) ==
    IF offset >= Len(byte_array) \/ offset + string_length > Len(byte_array)
    THEN Failed
    ELSE LET b == Slice(byte_array, offset, offset + string_length)
         IN  IF from_utf8_ok(b) THEN Value(trim(b)) ELSE Failed

get_bytes(byte_array, offset, byte_length) ==
    IF offset >= Len(byte_array) \/ offset + byte_length > Len(byte_array)
    THEN Failed
    ELSE Value(Slice(byte_array, offset, offset + byte_length))

get_uuid(byte_array, offset) ==
    IF offset >= Len(byte_array) \/ offset + 16 > Len(byte_array)
    THEN Failed
    ELSE Value(Slice(byte_array, offset + 8, offset + 12)
               \o Slice(byte_array, offset + 12, offset + 14)
               \o Slice(byte_array, offset + 14, offset + 16)
               \o Slice(byte_array, offset, offset + 2)
               \o Slice(byte_array, offset + 2, offset + 8))

\* uuid_bytes.swap(i, j), zero-based
Swap(b, i, j) == [b EXCEPT ![i + 1] = b[j + 1], ![j + 1] = b[i + 1]]

put_uuid(uuid) == Swap(Swap(Swap(Swap(uuid, 0, 3), 1, 2), 4, 5), 6, 7)

pad_trim_string(bytes, desired) ==
    IF Len(bytes) >= desired THEN SubSeq(bytes, 1, desired)
    ELSE bytes \o Repeat(0, desired - Len(bytes))

serialize_client_message(self) ==
    to_be_bytes_u32(self.header_length)
    \o pad_trim_string(MessageType_to_string(self.message_type), 32)
    \o to_be_bytes_u32(self.schema_version)
    \o to_be_bytes_u64(self.created_date)
    \o to_be_bytes_i64(self.sequence_number)
    \o to_be_bytes_u64(self.flags)
    \o put_uuid(self.message_id)
    \o self.payload_digest
    \o to_be_bytes_u32(PayloadType_into_u32(self.payload_type))
    \o to_be_bytes_u32(self.payload_length)
    \o self.payload

\* The fields are read in the order of the source; the first failure returns.
deserialize_client_message(input) ==
    LET s == get_string(input, MESSAGE_TYPE_OFFSET, MESSAGE_TYPE_LENGTH)
        message_type == IF s.ok THEN MessageType_from_str(s.val) ELSE Failed
        schema_version == get_u32(input, SCHEMA_VERSION_OFFSET)
        created_date == get_u64(input, CREATED_DATE_OFFSET)
        sequence_number_ == get_i64(input, SEQUENCE_NUMBER_OFFSET)
        flags == get_u64(input, FLAGS_OFFSET)
        message_id == get_uuid(input, MESSAGE_ID_OFFSET)
        payload_digest == get_bytes(input, PAYLOAD_DIGEST_OFFSET, PAYLOAD_DIGEST_LENGTH)
        payload_type_code == get_u32(input, PAYLOAD_TYPE_OFFSET)
        payload_length == get_u32(input, PAYLOAD_LENGTH_OFFSET)
        header_length == get_u32(input, HL_OFFSET)
    IN  IF ~message_type.ok THEN DeserializationError
        ELSE IF ~schema_version.ok THEN DeserializationError
        ELSE IF ~created_date.ok THEN DeserializationError
        ELSE IF ~sequence_number_.ok THEN DeserializationError
        ELSE IF ~flags.ok THEN DeserializationError
        ELSE IF ~message_id.ok THEN DeserializationError
        ELSE IF ~payload_digest.ok THEN DeserializationError
        ELSE IF ~payload_type_code.ok THEN DeserializationError
        ELSE IF PayloadType_from_u32(payload_type_code.val).panic THEN Panicked
        ELSE IF ~payload_length.ok THEN DeserializationError
        ELSE IF ~header_length.ok THEN DeserializationError
        \* &input[header_length + 4..] panics when the start is past the end
        ELSE IF header_length.val + PAYLOAD_LENGTH_LENGTH > Len(input) THEN Panicked
        ELSE [status |-> "Ok",
              msg |-> [header_length |-> header_length.val,
                       message_type |-> message_type.val,
                       schema_version |-> schema_version.val,
                       created_date |-> created_date.val,
                       sequence_number |-> sequence_number_.val,
                       flags |-> flags.val,
                       message_id |-> message_id.val,
                       payload_digest |-> payload_digest.val,
                       payload_type |-> PayloadType_from_u32(payload_type_code.val).val,
                       payload_length |-> payload_length.val,
                       payload |-> from_utf8_lossy(
                           SliceFrom(input, header_length.val + PAYLOAD_LENGTH_LENGTH))]]

(***************************************************************************)
(* The first client's types and codec (src/src/enums.rs, helpers.rs,       *)
(* structs.rs)                                                             *)
(***************************************************************************)
\* EMessageType::to_string / FromStr for EMessageType
EMessageTypeString ==
    [InteractiveShell |-> MessageTypeString.InteractiveShell,
     TaskReply |-> MessageTypeString.AgentTaskReply,
     TaskComplete |-> MessageTypeString.AgentTaskComplete,
     TaskAcknowledge |-> MessageTypeString.AgentTaskAcknowledge,
     Acknowledge |-> MessageTypeString.Acknowledge,
     AgentSession |-> MessageTypeString.AgentSessionState,
     ChannelClosed |-> MessageTypeString.ChannelClosed,
     OutputStreamData |-> MessageTypeString.OutputStreamData,
     InputStreamData |-> MessageTypeString.InputStreamData,
     PausePublication |-> MessageTypeString.PausePublication,
     StartPublication |-> MessageTypeString.StartPublication,
     AgentJob |-> MessageTypeString.AgentJob,
     AgentJobAcknowledge |-> MessageTypeString.AgentJobAck,
     AgentJobReplyAck |-> MessageTypeString.AgentJobReplyAck,
     AgentJobReply |-> MessageTypeString.AgentJobReply]

EMessageType == DOMAIN EMessageTypeString

EMessageType_to_string(mt) == EMessageTypeString[mt]

EMessageType_from_str(s) ==
    IF \E mt \in EMessageType : EMessageTypeString[mt] = s
    THEN [ok |-> TRUE, val |-> CHOOSE mt \in EMessageType : EMessageTypeString[mt] = s]
    ELSE [ok |-> FALSE]

\* enum EPayloadType, by discriminant 0..12
EPayloadTypeVariants ==
    <<"Null", "Output", "Error", "Size", "Parameter", "HandshakeRequest",
      "HandshakeResponse", "HandshakeComplete", "EncChallengeRequest",
      "EncChallengeResponse", "Flag", "StdErr", "ExitCode">>

\* EPayloadType::from_i32: None outside 0..12
EPayloadType_from_i32(value) ==
    IF value >= 0 /\ value < Len(EPayloadTypeVariants)
    THEN [ok |-> TRUE, val |-> EPayloadTypeVariants[value + 1]]
    ELSE [ok |-> FALSE]

\* `payload_type as i32`
EPayloadType_as_i32(pt) ==
    (CHOOSE i \in 1..Len(EPayloadTypeVariants) : EPayloadTypeVariants[i] = pt) - 1

\* The ASCII digit of a nibble, lower case ({:02x})
HexDigit(n) == IF n < 10 THEN 48 + n ELSE 87 + n

\* The nibble of an ASCII hex digit
HexValue(c) == IF c >= 48 /\ c <= 57 THEN c - 48 ELSE IF c >= 97 THEN c - 87 ELSE c - 55

RECURSIVE bytes_to_hex(_)
bytes_to_hex(bytes) ==
    IF bytes = <<>> THEN <<>>
    ELSE <<HexDigit(Head(bytes) \div 16), HexDigit(Head(bytes) % 16)>>
             \o bytes_to_hex(Tail(bytes))

\* Uuid::from_str of the hyphenated form 8-4-4-4-12
Uuid_from_str(s) ==
    LET digits == SelectSeq(s, LAMBDA c : c # 45)
    IN  [i \in 1..16 |-> HexValue(digits[2 * i - 1]) * 16 + HexValue(digits[2 * i])]

\* Uuid's Display and serde string: the hyphenated form, lower case
Uuid_to_string(u) ==
    bytes_to_hex(SubSeq(u, 1, 4)) \o <<45>> \o bytes_to_hex(SubSeq(u, 5, 6)) \o <<45>>
    \o bytes_to_hex(SubSeq(u, 7, 8)) \o <<45>> \o bytes_to_hex(SubSeq(u, 9, 10)) \o <<45>>
    \o bytes_to_hex(SubSeq(u, 11, 16))

big_endian_uuid(buffer) ==
    Uuid_from_str(bytes_to_hex(Slice(buffer, 8, 12)) \o <<45>>
                  \o bytes_to_hex(Slice(buffer, 12, 14)) \o <<45>>
                  \o bytes_to_hex(Slice(buffer, 14, 16)) \o <<45>>
                  \o bytes_to_hex(Slice(buffer, 0, 2)) \o <<45>>
                  \o bytes_to_hex(Slice(buffer, 2, 8)))

pad_trim(bytes, desired) ==
    IF Len(bytes) >= desired THEN SubSeq(bytes, 1, desired)
    ELSE bytes \o Repeat(0, desired - Len(bytes))

message_to_bytes(self) ==
    to_be_bytes_i32(self.header_length)
    \o pad_trim(EMessageType_to_string(self.message_type), 32)
    \o to_be_bytes_u32(self.schema_version)
    \o to_be_bytes_i64(self.created_date)
    \o to_be_bytes_i64(self.sequence_number)
    \o to_be_bytes_u64(self.flags)
    \o self.message_id
    \o self.payload_digest
    \o to_be_bytes_i32(EPayloadType_as_i32(self.payload_type))
    \o to_be_bytes_i32(self.payload_length)
    \o self.payload

\* Every slice out of range and every unwrap of a failure is a panic.
bytes_to_message(bytes) ==
    LET header_length == read_i32(Slice(bytes, 0, 4))
        type_bytes == Slice(bytes, 4, 36)
        message_type == EMessageType_from_str(trim(trim_end_matches_nul(type_bytes)))
        payload_type_value == read_i32(Slice(bytes, header_length - 4, header_length))
        payload_type ==
            IF header_length # 112 THEN EPayloadType_from_i32(payload_type_value)
            ELSE [ok |-> TRUE, val |-> "Null"]
        payload_length == read_i32(Slice(bytes, header_length, header_length + 4))
        payload_start == header_length + 4
        payload_bytes == Slice(bytes, payload_start, payload_start + payload_length)
    IN  IF Len(bytes) < 36 THEN Panicked
        ELSE IF ~from_utf8_ok(type_bytes) THEN Panicked
        ELSE IF ~message_type.ok THEN Panicked
        ELSE IF Len(bytes) < 112 THEN Panicked
        ELSE IF header_length # 112
                /\ (header_length - 4 < 0 \/ header_length > Len(bytes)) THEN Panicked
        ELSE IF ~payload_type.ok THEN Panicked
        ELSE IF header_length < 0 \/ header_length + 4 > Len(bytes) THEN Panicked
        ELSE IF payload_length < 0 \/ payload_start + payload_length > Len(bytes)
             THEN Panicked
        ELSE IF ~from_utf8_ok(payload_bytes) THEN Panicked
        ELSE [status |-> "Ok",
              msg |-> [header_length |-> header_length,
                       message_type |-> message_type.val,
                       schema_version |-> read_u32(Slice(bytes, 36, 40)),
                       created_date |-> read_i64(Slice(bytes, 40, 48)),
                       sequence_number |-> read_i64(Slice(bytes, 48, 56)),
                       flags |-> read_u64(Slice(bytes, 56, 64)),
                       message_id |-> big_endian_uuid(Slice(bytes, 64, 80)),
                       payload_digest |-> Slice(bytes, 80, 112),
                       payload_type |-> payload_type.val,
                       payload_length |-> payload_length,
                       payload |-> payload_bytes]]

(***************************************************************************)
(* SHA-256 is not computed: get_sha256_hash is a fixed function of the     *)
(* payload bytes giving 32 bytes, which is all the codec relies on.        *)
(***************************************************************************)
RECURSIVE SumRange(_, _, _)
SumRange(b, lo, hi) ==
    IF lo > hi THEN 0
    ELSE IF lo = hi THEN b[lo]
    ELSE LET mid == (lo + hi) \div 2
         IN  SumRange(b, lo, mid) + SumRange(b, mid + 1, hi)

SumBytes(b) == SumRange(b, 1, Len(b))

get_sha256_hash(input) ==
    LET sum == SumBytes(input)
    IN  [i \in 1..32 |-> (sum * i + Len(input) + i) % 256]

(***************************************************************************)
(* Inputs of the codec: envelopes, and the buffers a peer can put on the   *)
(* wire                                                                    *)
(***************************************************************************)
\* Largest sequence number drawn
MaxSeq == 2

\* Number of clock readings (SystemTime::now) drawn
MaxClock == 1

\* Number of fields of a buffer rewritten in transit
MaxTampers == 2

Clock == {1000 * t : t \in 1..MaxClock}

SeqNums == -1..MaxSeq

Uuids ==
    {[i \in 1..16 |-> (17 * i - 1) % 256], [i \in 1..16 |-> 255 - i], [i \in 1..16 |-> 119]}

\* "", "ls", "e-acute", {"cols":80,"rows":24}
Payloads ==
    {<<>>, <<108, 115>>, <<195, 169>>,
     <<123,34,99,111,108,115,34,58,56,48,44,34,114,111,119,115,34,58,50,52,125>>}

\* Byte strings that are not UTF-8: a stray 0xFF, a cut two-byte and a cut
\* three-byte character
RawPayloads == {<<108, 255, 115>>, <<97, 195>>, <<226, 130, 97>>}

ValidEnvelope(mt, pt, seq, fl, id, date, payload) ==
    [header_length |-> 116,
     message_type |-> mt,
     schema_version |-> 1,
     created_date |-> date,
     sequence_number |-> seq,
     flags |-> fl,
     message_id |-> id,
     payload_digest |-> get_sha256_hash(payload),
     payload_type |-> pt,
     payload_length |-> Len(payload),
     payload |-> payload]

BaseUuid == [i \in 1..16 |-> (17 * i - 1) % 256]

\* Every message type, every payload type, and every sequence number, flag
\* word, identifier, clock reading and payload, each against a base envelope.
Envelopes ==
    {ValidEnvelope(mt, "Output", 0, 1, BaseUuid, 1000, <<108, 115>>) : mt \in MessageType}
    \cup {ValidEnvelope("InputStreamData", pt, 0, 1, BaseUuid, 1000, <<108, 115>>) :
              pt \in PayloadType}
    \cup {ValidEnvelope("OutputStreamData", "Output", seq, 0, id, 1000, <<108, 115>>) :
              seq \in SeqNums, id \in Uuids}
    \cup {ValidEnvelope("InputStreamData", "Size", 0, fl, BaseUuid, date, payload) :
              fl \in 0..3, date \in Clock, payload \in Payloads}

\* The same envelope as the first client's AgentMessage: the variant with the
\* same wire string and the variant with the same discriminant.
AgentMessageOf(e) ==
    [e EXCEPT
        !.message_type =
            CHOOSE mt \in EMessageType :
                EMessageTypeString[mt] = MessageTypeString[e.message_type],
        !.payload_type = EPayloadTypeVariants[PayloadType_into_u32(e.payload_type) + 1]]

\* Buffer b with bytes lo+1..lo+Len(x) replaced by x (zero-based offset lo)
Overwrite(b, lo, x) ==
    [i \in 1..Len(b) |-> IF i > lo /\ i <= lo + Len(x) THEN x[i - lo] ELSE b[i]]

\* The message-type field filled with spaces where it had zero padding
SpacePadded(b) ==
    [i \in 1..Len(b) |->
        IF i > MESSAGE_TYPE_OFFSET /\ i <= MESSAGE_TYPE_OFFSET + MESSAGE_TYPE_LENGTH
           /\ b[i] = 0
        THEN 32 ELSE b[i]]

\* Message-type fields that name no message type: "bogus" and padding, all
\* zeros, and bytes that are not UTF-8
BadTypeFields ==
    {<<98, 111, 103, 117, 115>> \o Repeat(32, 27), Repeat(0, 32), Repeat(255, 32)}

HeaderLengths == {0, 112, 117, 200}

PayloadTypeCodes == {13, 255}

TruncatedLengths == {0, 3, 35, 36, 111, 115, 116, 119}

NoResult == [status |-> "None"]

(***************************************************************************)
(* The codec as a state machine: an envelope is encoded, the buffer may be *)
(* rewritten in transit, and a decoder is applied to it.                   *)
(***************************************************************************)
\* Times are counted in units of CLOCK_GRANULARITY (10 ms)
CLOCK_GRANULARITY == 1

RESEND_SLEEP_INTERVAL == 10

DEFAULT_TRANSMISSION_TIMEOUT == 20

DEFAULT_ROUND_TRIP_TIME == 10

DEFAULT_ROUND_TRIP_TIME_VARIATION == 0

MAX_TRANSMISSION_TIMEOUT == 100

\* Option<i32>
None == [is_some |-> FALSE]

Some(v) == [is_some |-> TRUE, value |-> v]

\* The last operation of the data channel: none yet
NoOperation == [op |-> "none", sequence_number |-> -1, removed |-> <<>>, result |-> "Ok"]

\* struct DataChannel as constructed: empty buffer, counters at the base, the
\* default round trip time and timeout
ReliableInit ==
    /\ outgoing_message_buffer = <<>>
    /\ stream_data_sequence_number = 0
    /\ round_trip = [round_trip_time |-> DEFAULT_ROUND_TRIP_TIME,
                     round_trip_time_variation |-> DEFAULT_ROUND_TRIP_TIME_VARIATION,
                     retransmission_timeout |-> DEFAULT_TRANSMISSION_TIMEOUT]
    /\ system_time = 0
    /\ transport = <<>>
    /\ failures = <<>>
    /\ last_op = NoOperation

\* The channel's variables while no channel exists
ChannelIdle ==
    /\ is_open = FALSE
    /\ connection = "None"
    /\ ws_lock = "free"
    /\ retry_count = 0
    /\ task = [receive |-> "off", ping |-> "off", send |-> "off"]
    /\ handlers = [on_message |-> FALSE, on_error |-> FALSE]
    /\ ws_in = <<>>
    /\ ws_out = <<>>
    /\ on_message_calls = <<>>
    /\ on_error_calls = 0
    /\ recv_errors = 0
    /\ pending = [kind |-> "none"]
    /\ send_returns = <<>>
    /\ closes = 0

\* The encrypter's variables while no Encrypter exists
EncrypterIdle ==
    /\ blobs = [status |-> "None"]
    /\ encrypter = [status |-> "None"]
    /\ encrypted = <<>>
    /\ decrypted = <<>>

\* The clients' variables while the codec runs alone
ClientIdle ==
    /\ sequence_number = 0
    /\ sent = <<>>
    /\ received = <<>>
    /\ acks = <<>>
    /\ stdout = <<>>
    /\ cstate = "off"

CodecInit ==
    /\ env \in Envelopes
    /\ wire = <<>>
    /\ result = NoResult
    /\ pc = [at |-> "start", enc |-> "none", dec |-> "none"]
    /\ tampered = {}
    /\ ClientIdle
    /\ ChannelIdle
    /\ EncrypterIdle
    /\ ReliableInit

Serialize ==
    /\ pc.at = "start"
    /\ wire' = serialize_client_message(env)
    /\ pc' = [pc EXCEPT !.at = "wire", !.enc = "serialize_client_message"]
    /\ UNCHANGED <<env, result, tampered, clientVars, chanVars, cryptVars, relVars>>

MessageToBytes ==
    /\ pc.at = "start"
    /\ wire' = message_to_bytes(AgentMessageOf(env))
    /\ pc' = [pc EXCEPT !.at = "wire", !.enc = "message_to_bytes"]
    /\ UNCHANGED <<env, result, tampered, clientVars, chanVars, cryptVars, relVars>>

CanTamper(kind) ==
    /\ pc.at = "wire"
    /\ kind \notin tampered
    /\ Cardinality(tampered) < MaxTampers

Tamper(kind, bytes) ==
    /\ wire' = bytes
    /\ tampered' = tampered \cup {kind}
    /\ UNCHANGED <<env, result, pc, clientVars, chanVars, cryptVars, relVars>>

TamperPadding ==
    /\ CanTamper("padding")
    /\ Tamper("padding", SpacePadded(wire))

TamperMessageType ==
    /\ CanTamper("message_type")
    /\ \E field \in BadTypeFields :
           Tamper("message_type", Overwrite(wire, MESSAGE_TYPE_OFFSET, field))

TamperHeaderLength ==
    /\ CanTamper("header_length")
    /\ Len(wire) >= HL_LENGTH
    /\ \E hl \in HeaderLengths :
           Tamper("header_length", Overwrite(wire, HL_OFFSET, to_be_bytes_u32(hl)))

TamperPayloadType ==
    /\ CanTamper("payload_type")
    /\ Len(wire) >= PAYLOAD_LENGTH_OFFSET
    /\ \E code \in PayloadTypeCodes :
           Tamper("payload_type",
                  Overwrite(wire, PAYLOAD_TYPE_OFFSET, to_be_bytes_u32(code)))

TamperPayload ==
    /\ CanTamper("payload")
    /\ Len(wire) >= PAYLOAD_OFFSET
    /\ \E raw \in RawPayloads :
           Tamper("payload",
                  SubSeq(wire, 1, PAYLOAD_LENGTH_OFFSET) \o to_be_bytes_u32(Len(raw))
                      \o raw)

Truncate ==
    /\ CanTamper("length")
    /\ \E n \in TruncatedLengths :
           /\ n < Len(wire)
           /\ Tamper("length", SubSeq(wire, 1, n))

Deserialize ==
    /\ pc.at = "wire"
    /\ result' = deserialize_client_message(wire)
    /\ pc' = [pc EXCEPT !.at = "done", !.dec = "deserialize_client_message"]
    /\ UNCHANGED <<env, wire, tampered, clientVars, chanVars, cryptVars, relVars>>

BytesToMessage ==
    /\ pc.at = "wire"
    /\ result' = bytes_to_message(wire)
    /\ pc' = [pc EXCEPT !.at = "done", !.dec = "bytes_to_message"]
    /\ UNCHANGED <<env, wire, tampered, clientVars, chanVars, cryptVars, relVars>>

CodecNext ==
    \/ Serialize
    \/ MessageToBytes
    \/ TamperPadding
    \/ TamperMessageType
    \/ TamperHeaderLength
    \/ TamperPayloadType
    \/ TamperPayload
    \/ Truncate
    \/ Deserialize
    \/ BytesToMessage

SpecCodec == CodecInit /\ [][CodecNext]_vars

(***************************************************************************)
(* JSON documents the clients write and read (serde_json)                  *)
(***************************************************************************)
\* Display for a non-negative integer
RECURSIVE Digits(_)
Digits(n) == IF n < 10 THEN <<48 + n>> ELSE Digits(n \div 10) \o <<48 + (n % 10)>>

\* Display for i64
i64_to_string(n) == IF n < 0 THEN <<45>> \o Digits(-n) ELSE Digits(n)

\* serde_json::to_string(&SizeData) and (&TermOptions): {"cols":c,"rows":r}
SizeData_to_json(size) ==
    <<123, 34, 99, 111, 108, 115, 34, 58>> \o Digits(size.cols) \o <<44, 34, 114, 111, 119,
        115, 34, 58>> \o Digits(size.rows) \o <<125>>

\* serde_json::to_string(&AcknowledgeContent)
AcknowledgeContent_to_json(c) ==
    <<123, 34, 65, 99, 107, 110, 111, 119, 108, 101, 100, 103, 101, 100, 77, 101, 115, 115, 97,
        103, 101, 84, 121, 112, 101, 34, 58, 34>> \o c.message_type
    \o <<34, 44, 34, 65, 99, 107, 110, 111, 119, 108, 101, 100, 103, 101, 100, 77, 101, 115,
        115, 97, 103, 101, 73, 100, 34, 58, 34>> \o Uuid_to_string(c.message_id)
    \o <<34, 44, 34, 65, 99, 107, 110, 111, 119, 108, 101, 100, 103, 101, 100, 77, 101, 115,
        115, 97, 103, 101, 83, 101, 113, 117, 101, 110, 99, 101, 78, 117, 109, 98, 101, 114,
        34, 58>> \o i64_to_string(c.sequence_number)
    \o <<44, 34, 73, 115, 83, 101, 113, 117, 101, 110, 116, 105, 97, 108, 77, 101, 115, 115,
        97, 103, 101, 34, 58>> \o (IF c.is_sequential_message THEN <<116, 114, 117,
        101>> ELSE <<102, 97, 108, 115, 101>>)
    \o <<125>>

\* config::MESSAGE_SCHEMA_VERSION, "1.0"
MESSAGE_SCHEMA_VERSION == <<49, 46, 48>>

\* OpenDataChannelInput::new and serde_json::to_string of it
OpenDataChannelInput_to_json(request_id, token_value, client_id) ==
    <<123, 34, 77, 101, 115, 115, 97, 103, 101, 83, 99, 104, 101, 109, 97, 86, 101, 114, 115,
        105, 111, 110, 34, 58, 34>> \o MESSAGE_SCHEMA_VERSION
    \o <<34, 44, 34, 82, 101, 113, 117, 101, 115, 116, 73, 100, 34, 58, 34>> \o request_id
    \o <<34, 44, 34, 84, 111, 107, 101, 110, 86, 97, 108, 117, 101, 34, 58, 34>> \o token_value
    \o <<34, 44, 34, 67, 108, 105, 101, 110, 116, 73, 100, 34, 58, 34>> \o Uuid_to_string(client_id)
    \o <<34, 125>>

\* Token::build_token_message and serde_json::to_string_pretty of it
Token_to_json_pretty(request_id, token_value) ==
    <<123, 10, 32, 32, 34, 77, 101, 115, 115, 97, 103, 101, 83, 99, 104, 101, 109, 97, 86, 101,
        114, 115, 105, 111, 110, 34, 58, 32, 34>> \o <<49, 46, 48>>
    \o <<34, 44, 10, 32, 32, 34, 82, 101, 113, 117, 101, 115, 116, 73, 100, 34, 58, 32,
        34>> \o request_id
    \o <<34, 44, 10, 32, 32, 34, 84, 111, 107, 101, 110, 86, 97, 108, 117, 101, 34, 58, 32,
        34>> \o token_value
    \o <<34, 10, 125>>

\* A pause_publication document with the four fields of PausePublication
PausePublicationDoc ==
    <<123, 34, 77, 101, 115, 115, 97, 103, 101, 84, 121, 112, 101, 34, 58, 34, 112, 97, 117,
        115, 101, 95, 112, 117, 98, 108, 105, 99, 97, 116, 105, 111, 110, 34, 44, 34, 83, 99,
        104, 101, 109, 97, 86, 101, 114, 115, 105, 111, 110, 34, 58, 49, 44, 34, 77, 101, 115,
        115, 97, 103, 101, 73, 100, 34, 58, 34, 109, 34, 44, 34, 67, 114, 101, 97, 116, 101,
        68, 97, 116, 97, 34, 58, 34, 100, 34, 125>>

\* A channel_closed document with the seven fields of ChannelClosed
ChannelClosedDoc ==
    <<123, 34, 77, 101, 115, 115, 97, 103, 101, 73, 100, 34, 58, 34, 48, 48, 48, 48, 48, 48,
        48, 48, 45, 48, 48, 48, 48, 45, 52, 48, 48, 48, 45, 56, 48, 48, 48, 45, 48, 48, 48, 48,
        48, 48, 48, 48, 48, 48, 48, 48, 34, 44, 34, 67, 114, 101, 97, 116, 101, 100, 68, 97,
        116, 101, 34, 58, 34, 100, 34, 44, 34, 68, 101, 115, 116, 105, 110, 97, 116, 105, 111,
        110, 73, 100, 34, 58, 34, 105, 34, 44, 34, 83, 101, 115, 115, 105, 111, 110, 73, 100,
        34, 58, 34, 115, 34, 44, 34, 77, 101, 115, 115, 97, 103, 101, 84, 121, 112, 101, 34,
        58, 34, 99, 104, 97, 110, 110, 101, 108, 95, 99, 108, 111, 115, 101, 100, 34, 44, 34,
        83, 99, 104, 101, 109, 97, 86, 101, 114, 115, 105, 111, 110, 34, 58, 49, 44, 34, 79,
        117, 116, 112, 117, 116, 34, 58, 34, 34, 125>>

\* serde_json::from_str::<PausePublication>(payload).is_ok(): of the payloads
\* a peer frame carries here, only PausePublicationDoc has the struct's fields
from_str_PausePublication_is_ok(payload) == payload = PausePublicationDoc

\* serde_json::from_str::<ChannelClosed>(payload).is_ok()
from_str_ChannelClosed_is_ok(payload) == payload = ChannelClosedDoc

(***************************************************************************)
(* Message builders of the session_manager client (client/src/ssm.rs);     *)
(* `now` is the reading of SystemTime::now and `id` the Uuid::new_v4 drawn *)
(***************************************************************************)
build_agent_message(payload, message_type, sequence_no, payload_type, flags, now, id) ==
    [header_length |-> 116,
     message_type |-> message_type,
     schema_version |-> 1,
     created_date |-> now,
     sequence_number |-> sequence_no,
     flags |-> flags,
     message_id |-> id,
     payload_digest |-> get_sha256_hash(payload),
     payload_type |-> payload_type,
     payload_length |-> Len(payload),
     payload |-> payload]

build_init_message(term_options, sequence_no, now, id) ==
    serialize_client_message(
        build_agent_message(SizeData_to_json(term_options), "InputStreamData",
                            sequence_no, "Size", 1, now, id))

\* The AcknowledgeContent that build_acknowledge puts in the payload
AcknowledgeContentOf(sequence_no, message_id) ==
    [message_type |-> MessageTypeString.OutputStreamData,
     message_id |-> message_id,
     sequence_number |-> sequence_no,
     is_sequential_message |-> TRUE]

build_acknowledge(sequence_no, message_id, now, id) ==
    serialize_client_message(
        build_agent_message(
            AcknowledgeContent_to_json(AcknowledgeContentOf(sequence_no, message_id)),
            "Acknowledge", sequence_no, "Size", 0, now, id))

build_input_message(input, sequence_no, now, id) ==
    serialize_client_message(
        build_agent_message(input, "InputStreamData", sequence_no, "Output",
                            IF sequence_no = 1 THEN 0 ELSE 1, now, id))

(***************************************************************************)
(* Message builders of the first client (src/ssm.rs, src/structs.rs)       *)
(***************************************************************************)
AgentMessage_build_agent_message(payload, message_type, sequence_no, payload_type, flags, now, id) ==
    [header_length |-> 116,
     message_type |-> message_type,
     schema_version |-> 1,
     created_date |-> now,
     sequence_number |-> sequence_no,
     flags |-> flags,
     message_id |-> id,
     payload_digest |-> get_sha256_hash(payload),
     payload_type |-> payload_type,
     payload_length |-> Len(payload),
     payload |-> payload]

Legacy_build_init_message(term_options, sequence_no, now, id) ==
    message_to_bytes(
        AgentMessage_build_agent_message(SizeData_to_json(term_options), "InputStreamData",
                                         sequence_no, "Size", 1, now, id))

Legacy_build_acknowledge(sequence_no, message_id, now, id) ==
    message_to_bytes(
        AgentMessage_build_agent_message(
            AcknowledgeContent_to_json(
                [message_type |-> EMessageType_to_string("OutputStreamData"),
                 message_id |-> message_id,
                 sequence_number |-> sequence_no,
                 is_sequential_message |-> TRUE]),
            "Acknowledge", sequence_no, "Size", 0, now, id))

Legacy_build_input_message(input, sequence_no, now, id) ==
    message_to_bytes(
        AgentMessage_build_agent_message(input, "InputStreamData", sequence_no,
                                         "Output", IF sequence_no = 1 THEN 0 ELSE 1,
                                         now, id))

(***************************************************************************)
(* Claims about the codec, checked under SpecCodec                         *)
(***************************************************************************)
Decoded(enc, dec) == pc.at = "done" /\ pc.enc = enc /\ pc.dec = dec

\* The header_length field of a buffer of at least four bytes
HeaderLengthOf(b) == read_u32(Slice(b, HL_OFFSET, HL_OFFSET + HL_LENGTH))

\* The bytes from header_length + 4 to the end of the buffer
PayloadBytesOf(b) == SliceFrom(b, HeaderLengthOf(b) + PAYLOAD_LENGTH_LENGTH)

\* p occurs in s as a contiguous run
Contains(s, p) == \E i \in 1..Len(s) : i + Len(p) - 1 <= Len(s) /\ SubSeq(s, i, i + Len(p) - 1) = p

\* C1: for every valid envelope E, deserialize_client_message applied to
\* serialize_client_message(E) succeeds and returns every field of E.
C1_RoundTrip ==
    (Decoded("serialize_client_message", "deserialize_client_message") /\ tampered = {})
        => /\ result.status = "Ok"
           /\ result.msg = env

\* C2: the identifier a decoder returns is the identifier that was encoded,
\* for get_uuid after put_uuid and for big_endian_uuid after message_to_bytes
\* (the padding of the type field may have been rewritten, the identifier not).
C2_IdentifierRoundTrip ==
    (/\ \/ Decoded("serialize_client_message", "deserialize_client_message")
        \/ Decoded("message_to_bytes", "bytes_to_message")
     /\ tampered \subseteq {"padding"}
     /\ result.status = "Ok")
        => result.msg.message_id = env.message_id

\* C8: deserialize_client_message never aborts because of a length: a buffer
\* shorter than 120 bytes, or one whose header_length + 4 is past its end,
\* yields a DeserializationError.
C8_DecodeTotalOverLengths ==
    (/\ pc.at = "done"
     /\ pc.dec = "deserialize_client_message"
     /\ \/ Len(wire) < PAYLOAD_OFFSET
        \/ HeaderLengthOf(wire) + PAYLOAD_LENGTH_LENGTH > Len(wire))
        => result = DeserializationError

\* The fields before the payload decode: the buffer holds the fixed header,
\* the type field names a message type once white space is trimmed, the
\* payload type code is one of 0..12 and header_length + 4 is in the buffer.
HeaderDecodes(b) ==
    /\ Len(b) >= PAYLOAD_OFFSET
    /\ LET field == Slice(b, MESSAGE_TYPE_OFFSET, MESSAGE_TYPE_OFFSET + MESSAGE_TYPE_LENGTH)
       IN  /\ from_utf8_ok(field)
           /\ \E mt \in MessageType : MessageTypeString[mt] = trim(field)
    /\ read_u32(Slice(b, PAYLOAD_TYPE_OFFSET, PAYLOAD_LENGTH_OFFSET)) <= 12
    /\ HeaderLengthOf(b) + PAYLOAD_LENGTH_LENGTH <= Len(b)

C10_MessageTypeField ==
    (Decoded("serialize_client_message", "deserialize_client_message"))
        => /\ tampered = {}
               => /\ result.status = "Ok"
                  /\ result.msg.message_type = env.message_type
           /\ tampered = {"message_type"} => result = DeserializationError

\* C12: every envelope held has payload_length equal to the length of its
\* payload, the one handed to the encoder and the one a decoder returns, and
\* the one handed to the encoder has the digest of its payload and
\* header_length 116.
C12_EnvelopeInvariant ==
    /\ env.payload_length = Len(env.payload)
    /\ env.payload_digest = get_sha256_hash(env.payload)
    /\ env.header_length = 116
    /\ (pc.at = "done" /\ pc.dec = "deserialize_client_message" /\ result.status = "Ok")
           => result.msg.payload_length = Len(result.msg.payload)

(***************************************************************************)
(* What the peer puts on the web socket                                    *)
(***************************************************************************)
\* Number of frames received in a run
MaxRecv == 2

\* Largest value of the first client's sequence number at which a character
\* is still typed
MaxCounter == 2

\* Identifiers Uuid::new_v4 draws
NewUuids == {[i \in 1..16 |-> 160 + i], [i \in 1..16 |-> 200 + i]}

\* terminal::size()
TerminalSizes == {[cols |-> 80, rows |-> 24]}

\* The request id and the token value of the session
RequestId == <<114>>

TokenValue == <<116>>

\* The identifier the peer gives its n-th frame
PeerUuid(n) == [i \in 1..16 |-> 16 * n + i]

PeerEnvelope(mt, pt, seq, n, payload) ==
    ValidEnvelope(mt, pt, seq, 0, PeerUuid(n), 1000, payload)

\* The payload of the output frame with sequence number seq: its digit
OutputPayload(seq) == <<48 + seq>>

\* Shell output in sequence, a handshake request, an acknowledgement of the
\* client's first frame, and control frames with and without a document
PeerEnvelopes ==
    {PeerEnvelope("OutputStreamData", "Output", seq, seq, OutputPayload(seq)) :
         seq \in 0..MaxSeq}
    \cup {PeerEnvelope("OutputStreamData", "HandshakeRequestPayloadType", 0, 8, <<123, 125>>),
          PeerEnvelope("Acknowledge", "Null", 0, 9,
                       AcknowledgeContent_to_json(
                           [message_type |-> MessageTypeString.InputStreamData,
                            message_id |-> BaseUuid,
                            sequence_number |-> 0,
                            is_sequential_message |-> TRUE])),
          PeerEnvelope("ChannelClosed", "Null", 0, 10, ChannelClosedDoc),
          PeerEnvelope("ChannelClosed", "Null", 0, 11, <<108, 115>>),
          PeerEnvelope("PausePublication", "Null", 0, 12, PausePublicationDoc),
          PeerEnvelope("PausePublication", "Null", 0, 13, <<>>),
          PeerEnvelope("StartPublication", "Null", 0, 14, <<>>)}

\* Each envelope as the agent writes it (type field padded with spaces), the
\* stream and acknowledge frames also as this repository's encoder writes
\* them (padded with zeros), and a buffer too short to be a frame
PeerFrames ==
    {SpacePadded(serialize_client_message(e)) : e \in PeerEnvelopes}
    \cup {serialize_client_message(e) :
              e \in {x \in PeerEnvelopes :
                         x.message_type \in {"OutputStreamData", "Acknowledge"}}}
    \cup {<<107, 101, 101, 112, 97, 108, 105, 118, 101>>}

\* The codec's variables while a client runs
CodecIdle ==
    /\ env = ValidEnvelope("InputStreamData", "Size", 0, 1, BaseUuid, 1000, <<>>)
    /\ wire = <<>>
    /\ result = NoResult
    /\ pc = [at |-> "off", enc |-> "none", dec |-> "none"]
    /\ tampered = {}

Binary(data) == [kind |-> "binary", data |-> data]

Text(data) == [kind |-> "text", data |-> data]

(***************************************************************************)
(* The session_manager client (client/src/main.rs), from the connected     *)
(* web socket on. A send on the web socket and a write to stdout succeed.  *)
(* stdout records each write as the call, its format and its arguments.    *)
(***************************************************************************)
Println(fmt, args) == [by |-> "println", fmt |-> fmt, args |-> args]

WriteAll(bytes) == [by |-> "write_all", fmt |-> "", args |-> <<bytes>>]

ClientInit ==
    /\ sequence_number = 0
    /\ sent = <<>>
    /\ received = <<>>
    /\ acks = <<>>
    /\ stdout = <<>>
    /\ cstate = "connected"

\* main, lines 92-110: the token as text, then the terminal size
ClientStart ==
    /\ cstate = "connected"
    /\ \E client_id \in NewUuids, size_data \in TerminalSizes, now \in Clock,
          id \in NewUuids :
           sent' = sent \o
               <<Text(OpenDataChannelInput_to_json(RequestId, TokenValue, client_id)),
                 Binary(build_init_message(size_data, sequence_number, now, id))>>
    /\ cstate' = "loop"
    /\ UNCHANGED <<sequence_number, received, acks, stdout, codecVars,
                   chanVars, cryptVars, relVars>>

\* send_ack: the acknowledgement, then the payload to stdout when it is output
send_ack(message, now, id) ==
    /\ sent' = Append(sent, Binary(build_acknowledge(sequence_number, message.message_id,
                                                      now, id)))
    /\ acks' = Append(acks, [of |-> Len(received) + 1,
                             content |-> AcknowledgeContentOf(sequence_number,
                                                              message.message_id)])
    /\ stdout' =
           Append(stdout, Println("Payload [{}]\n{}",
                                  <<MessageType_to_string(message.message_type),
                                    message.payload>>))
           \o (IF message.message_type \in {"ChannelClosed", "PausePublication"}
               THEN <<Println("{:#?}", <<message.payload>>)>>
               ELSE IF message.message_type = "StartPublication"
               THEN <<Println("StartPublication: {:?}", <<message.payload>>)>>
               ELSE <<>>)
           \o (IF message.payload_type = "Output" THEN <<WriteAll(message.payload)>>
               ELSE <<>>)

\* One pass of the loop with a data frame from the web socket, lines 119-173
ClientReceive ==
    /\ cstate = "loop"
    /\ Len(received) < MaxRecv
    /\ \E bytes \in PeerFrames, now \in Clock, id \in NewUuids :
           LET decoded == deserialize_client_message(bytes)
               message == decoded.msg
               logged == Append(stdout,
                                Println("Payload [{}]\n{}",
                                        <<MessageType_to_string(message.message_type),
                                          message.payload>>))
           IN  /\ received' = Append(received, bytes)
               /\ CASE decoded.status = "Err" ->
                           /\ cstate' = "failed"
                           /\ UNCHANGED <<sent, acks, stdout>>
                    [] decoded.status = "Panic" ->
                           /\ cstate' = "panicked"
                           /\ UNCHANGED <<sent, acks, stdout>>
                    [] OTHER ->
                           IF message.message_type = "Acknowledge"
                           THEN /\ stdout' = logged
                                /\ UNCHANGED <<sent, acks, cstate>>
                           ELSE IF \/ /\ message.message_type = "ChannelClosed"
                                      /\ ~from_str_ChannelClosed_is_ok(message.payload)
                                   \/ /\ message.message_type = "PausePublication"
                                      /\ ~from_str_PausePublication_is_ok(message.payload)
                           THEN /\ stdout' = logged
                                /\ cstate' = "panicked"
                                /\ UNCHANGED <<sent, acks>>
                           ELSE /\ send_ack(message, now, id)
                                /\ UNCHANGED cstate
    /\ UNCHANGED <<sequence_number, codecVars,
                   chanVars, cryptVars, relVars>>

\* The web socket yields a close frame: leave the loop, lines 120-122, 177-182
ClientClose ==
    /\ cstate = "loop"
    /\ cstate' = "closed"
    /\ UNCHANGED <<sequence_number, sent, received, acks, stdout, codecVars,
                   chanVars, cryptVars, relVars>>

\* The web socket yields None or an error: the loop goes round, line 119
ClientRecvNothing ==
    /\ cstate = "loop"
    /\ UNCHANGED vars

Init == CodecIdle /\ ClientInit /\ ChannelIdle /\ EncrypterIdle /\ ReliableInit

Next ==
    \/ ClientStart
    \/ ClientReceive
    \/ ClientClose
    \/ ClientRecvNothing

Spec == Init /\ [][Next]_vars

(***************************************************************************)
(* The first client (src/main.rs), from the connected web socket on. Each  *)
(* pass of its loop waits for a terminal event, then for the web socket.   *)
(***************************************************************************)
\* Key codes read from the terminal: a character, Esc, one of the others
KeyCodes == {"Char", "Esc", "Enter"}

\* The characters typed: l
Chars == {108}

ExecutePrint(text) == [by |-> "execute", fmt |-> "", args |-> <<text>>]

\* main, lines 90-106: the token, the terminal size, and the counter moves on
LegacyStart ==
    /\ cstate = "connected"
    /\ \E term_options \in TerminalSizes, now \in Clock, id \in NewUuids :
           sent' = sent \o
               <<Text(Token_to_json_pretty(RequestId, TokenValue)),
                 Binary(Legacy_build_init_message(term_options, sequence_number, now, id))>>
    /\ sequence_number' = sequence_number + 1
    /\ cstate' = "key"
    /\ UNCHANGED <<received, acks, stdout, codecVars,
                   chanVars, cryptVars, relVars>>

\* crossterm::event::read, lines 109-144
LegacyKey ==
    /\ cstate = "key"
    /\ \E code \in KeyCodes :
           CASE code = "Char" ->
                    /\ sequence_number <= MaxCounter
                    /\ \E c \in Chars, now \in Clock, id \in NewUuids :
                           sent' = Append(sent,
                                          Binary(Legacy_build_input_message(
                                                     <<c>>, sequence_number, now, id)))
                    /\ sequence_number' = sequence_number + 1
                    /\ cstate' = "recv"
             [] code = "Esc" ->
                    /\ cstate' = "closed"
                    /\ UNCHANGED <<sent, sequence_number>>
             [] OTHER ->
                    /\ cstate' = "recv"
                    /\ UNCHANGED <<sent, sequence_number>>
    /\ UNCHANGED <<received, acks, stdout, codecVars,
                   chanVars, cryptVars, relVars>>

\* The web socket yields a data frame, lines 146-167
LegacyRecv ==
    /\ cstate = "recv"
    /\ Len(received) < MaxRecv
    /\ \E bytes \in PeerFrames, now \in Clock, id \in NewUuids :
           LET decoded == bytes_to_message(bytes)
               message == decoded.msg
           IN  /\ received' = Append(received, bytes)
               /\ IF decoded.status = "Panic"
                  THEN /\ cstate' = "panicked"
                       /\ UNCHANGED <<sent, acks, stdout, sequence_number>>
                  ELSE /\ IF message.message_type # "Acknowledge"
                          THEN /\ sent' = Append(sent,
                                                 Binary(Legacy_build_acknowledge(
                                                            sequence_number,
                                                            message.message_id, now, id)))
                               /\ acks' = Append(acks,
                                                 [of |-> Len(received) + 1,
                                                  content |-> AcknowledgeContentOf(
                                                                  sequence_number,
                                                                  message.message_id)])
                               /\ sequence_number' = sequence_number + 1
                          ELSE UNCHANGED <<sent, acks, sequence_number>>
                       /\ stdout' = IF message.payload_type = "Output"
                                    THEN Append(stdout, ExecutePrint(message.payload))
                                    ELSE stdout
                       /\ cstate' = "key"
    /\ UNCHANGED <<codecVars, chanVars, cryptVars, relVars>>

\* The web socket yields a close frame, lines 147-149 and 170-173
LegacyRecvClose ==
    /\ cstate = "recv"
    /\ cstate' = "closed"
    /\ UNCHANGED <<sequence_number, sent, received, acks, stdout, codecVars,
                   chanVars, cryptVars, relVars>>

\* The web socket yields None or an error: back to the terminal, line 146
LegacyRecvNothing ==
    /\ cstate = "recv"
    /\ cstate' = "key"
    /\ UNCHANGED <<sequence_number, sent, received, acks, stdout, codecVars,
                   chanVars, cryptVars, relVars>>

LegacyInit == CodecIdle /\ ClientInit /\ ChannelIdle /\ EncrypterIdle /\ ReliableInit

LegacyNext ==
    \/ LegacyStart
    \/ LegacyKey
    \/ LegacyRecv
    \/ LegacyRecvClose
    \/ LegacyRecvNothing

SpecLegacy == LegacyInit /\ [][LegacyNext]_vars

(***************************************************************************)
(* Claims about the clients                                                *)
(***************************************************************************)
\* The name in the type field of a frame, without its padding
FrameMessageType(b) ==
    IF Len(b) >= MESSAGE_TYPE_OFFSET + MESSAGE_TYPE_LENGTH
    THEN trim(trim_end_matches_nul(
                  Slice(b, MESSAGE_TYPE_OFFSET, MESSAGE_TYPE_OFFSET + MESSAGE_TYPE_LENGTH)))
    ELSE <<>>

\* The sequence_number field of a frame
FrameSequenceNumber(b) ==
    read_i64(Slice(b, SEQUENCE_NUMBER_OFFSET, SEQUENCE_NUMBER_OFFSET + SEQUENCE_NUMBER_LENGTH))

IsAcknowledgeFrame(m) ==
    m.kind = "binary" /\ FrameMessageType(m.data) = MessageTypeString.Acknowledge

IsStreamDataFrame(m) ==
    m.kind = "binary" /\ FrameMessageType(m.data) = MessageTypeString.InputStreamData

\* The payloads written for the user, in the order written
Delivered == SelectSeq(stdout, LAMBDA e : e.by \in {"write_all", "execute"})

\* C3: the payloads handed to the handler are those of sequence numbers
\* 0, 1, 2, ... in that order, whatever the order of arrival.
C3_InOrderDelivery ==
    \A i \in 1..Len(Delivered) : Delivered[i].args = <<OutputPayload(i - 1)>>

\* C4: once a received frame has been handled, exactly one acknowledge frame
\* has been sent for it if its type is a message type other than
\* acknowledge, and none if it is acknowledge.
C4_OneAckPerFrame ==
    cstate # "connected" =>
        /\ \A i \in 1..Len(received) :
               LET n == Cardinality({k \in 1..Len(acks) : acks[k].of = i})
                   name == FrameMessageType(received[i])
               IN  /\ name = MessageTypeString.Acknowledge => n = 0
                   /\ (\E mt \in MessageType \ {"Acknowledge"} :
                           MessageTypeString[mt] = name) => n = 1
        /\ Len(SelectSeq(sent, IsAcknowledgeFrame)) = Len(acks)

\* C5: every acknowledgement names the message_id and the sequence_number
\* of the received message it acknowledges.
C5_AckNamesReceivedMessage ==
    \A k \in 1..Len(acks) :
        LET message == deserialize_client_message(received[acks[k].of]).msg
        IN  /\ acks[k].content.message_id = message.message_id
            /\ acks[k].content.sequence_number = message.sequence_number

\* C6: the stream-data frames a client sends carry the sequence numbers
\* 0, 1, 2, ... in the order sent.
C6_OutgoingSequenceNumbers ==
    LET frames == SelectSeq(sent, IsStreamDataFrame)
    IN  \A i \in 1..Len(frames) : FrameSequenceNumber(frames[i].data) = i - 1

\* C7: a step that sends an acknowledge frame leaves the outgoing sequence
\* number as it was.
C7_AckKeepsSequenceNumber ==
    [][(\E k \in (Len(sent) + 1)..Len(sent') : IsAcknowledgeFrame(sent'[k]))
           => sequence_number' = sequence_number]_vars

\* C11: a received frame that fails to decode is dropped and the loop goes
\* on: a decoding error never ends the client.
C11_DecodeFailureIsSkipped ==
    (\E i \in 1..Len(received) :
         deserialize_client_message(received[i]) = DeserializationError)
        => cstate \in {"loop", "closed"}

(***************************************************************************)
(* The web socket channel (communicator/web_sockets_channel.rs). Three     *)
(* tasks run: the receive loop and the ping loop that open spawns, and the *)
(* application, which calls send_message, close, set_on_message and        *)
(* set_on_error. send_message and close take &mut self, so one call of     *)
(* them runs at a time. The application opens the channel once.            *)
(***************************************************************************)
RETRY_ATTEMPT == 5

\* Number of messages ws.next() yields in a run
MaxFrames == 1

\* Number of pings written in a run
MaxPings == 1

\* Number of send_message calls in a run
MaxSends == 1

\* Number of close calls in a run
MaxCloses == 1

\* What ws.next() yields inside Some(Ok(..)): a binary, a text and a ping message
Messages ==
    {[kind |-> "binary", data |-> <<1>>],
     [kind |-> "text", data |-> <<104>>],
     [kind |-> "ping", data |-> <<>>]}

\* The argument of send_message
WebSocketMessages == {Binary(<<2>>), Text(<<105>>)}

\* Message::ping(Bytes::from("keepalive"))
PingMessage == [kind |-> "ping", data |-> <<107, 101, 101, 112, 97, 108, 105, 118, 101>>]

is_binary(message) == message.kind = "binary"

is_text(message) == message.kind = "text"

\* Mutex::lock().await returns once nothing holds the mutex, whoever asks
Mutex_lock_unguarded(holder) == TRUE

\* Mutex::lock().await returns once nothing holds the mutex
Mutex_lock(holder) == holder = "free"

\* retry_count >= RETRY_ATTEMPT - 1
retry_limit_reached_early(count) == count >= RETRY_ATTEMPT - 1

\* retry_count >= RETRY_ATTEMPT
retry_limit_reached(count) == count >= RETRY_ATTEMPT

NoPending == [kind |-> "none"]

\* A WebSocketChannel before open: no connection, is_open false
ChannelInit ==
    /\ is_open = FALSE
    /\ connection = "None"
    /\ ws_lock = "free"
    /\ retry_count = 0
    /\ task = [receive |-> "none", ping |-> "none", send |-> "idle"]
    /\ handlers = [on_message |-> FALSE, on_error |-> FALSE]
    /\ ws_in = <<>>
    /\ ws_out = <<>>
    /\ on_message_calls = <<>>
    /\ on_error_calls = 0
    /\ recv_errors = 0
    /\ pending = NoPending
    /\ send_returns = <<>>
    /\ closes = 0

\* set_on_message
SetOnMessage ==
    /\ ~handlers.on_message
    /\ handlers' = [handlers EXCEPT !.on_message = TRUE]
    /\ UNCHANGED <<is_open, connection, ws_lock, retry_count, task, ws_in,
                   ws_out, on_message_calls, on_error_calls, recv_errors,
                   pending, send_returns, closes, codecVars, clientVars,
                   cryptVars, relVars>>

\* set_on_error
SetOnError ==
    /\ ~handlers.on_error
    /\ handlers' = [handlers EXCEPT !.on_error = TRUE]
    /\ UNCHANGED <<is_open, connection, ws_lock, retry_count, task, ws_in,
                   ws_out, on_message_calls, on_error_calls, recv_errors,
                   pending, send_returns, closes, codecVars, clientVars,
                   cryptVars, relVars>>

\* open, once connect() has succeeded: the connection, is_open, start_pings
\* and the receive task
ChannelOpen ==
    /\ task.receive = "none"
    /\ connection' = "Some"
    /\ ws_lock' = "free"
    /\ is_open' = TRUE
    /\ task' = [task EXCEPT !.ping = "tick", !.receive = "loop"]
    /\ retry_count' = 0
    /\ UNCHANGED <<handlers, ws_in, ws_out, on_message_calls, on_error_calls,
                   recv_errors, pending, send_returns, closes, codecVars,
                   clientVars, cryptVars, relVars>>

\* The receive loop from its head to ws.lock().await, lines 76-85
ReceiveLock ==
    /\ task.receive = "loop"
    /\ IF ~is_open
       THEN /\ task' = [task EXCEPT !.receive = "stopped"]
            /\ UNCHANGED ws_lock
       ELSE /\ Mutex_lock(ws_lock)
            /\ ws_lock' = "receive"
            /\ task' = [task EXCEPT !.receive = "next"]
    /\ UNCHANGED <<is_open, connection, retry_count, handlers, ws_in, ws_out,
                   on_message_calls, on_error_calls, recv_errors, pending,
                   send_returns, closes, codecVars, clientVars, cryptVars, relVars>>

\* ws.next() yields Some(Ok(message)), lines 87-100; the guard is dropped
\* when the pass ends
ReceiveMessage ==
    /\ task.receive = "next"
    /\ Len(ws_in) < MaxFrames
    /\ \E message \in Messages :
           /\ ws_in' = Append(ws_in, [message |-> message,
                                      handler |-> handlers.on_message])
           /\ IF ~is_binary(message) \/ ~is_text(message)
              THEN UNCHANGED <<retry_count, on_message_calls>>
              ELSE /\ retry_count' = 0
                   /\ on_message_calls' =
                          IF handlers.on_message
                          THEN Append(on_message_calls, message.data)
                          ELSE on_message_calls
    /\ ws_lock' = "free"
    /\ task' = [task EXCEPT !.receive = "loop"]
    /\ UNCHANGED <<is_open, connection, handlers, ws_out, on_error_calls,
                   recv_errors, pending, send_returns, closes, codecVars,
                   clientVars, cryptVars, relVars>>

\* ws.next() yields Some(Err(e)), lines 101-119
ReceiveError ==
    /\ task.receive = "next"
    /\ recv_errors' = recv_errors + 1
    /\ retry_count' = retry_count + 1
    /\ IF retry_limit_reached(retry_count + 1)
       THEN /\ on_error_calls' = IF handlers.on_error THEN on_error_calls + 1
                                 ELSE on_error_calls
            /\ task' = [task EXCEPT !.receive = "exhausted"]
       ELSE /\ UNCHANGED on_error_calls
            /\ task' = [task EXCEPT !.receive = "loop"]
    /\ ws_lock' = "free"
    /\ UNCHANGED <<is_open, connection, handlers, ws_in, ws_out,
                   on_message_calls, pending, send_returns, closes, codecVars,
                   clientVars, cryptVars, relVars>>

\* ws.next() yields None, lines 120-123
ReceiveNone ==
    /\ task.receive = "next"
    /\ task' = [task EXCEPT !.receive = "ended"]
    /\ ws_lock' = "free"
    /\ UNCHANGED <<is_open, connection, retry_count, handlers, ws_in, ws_out,
                   on_message_calls, on_error_calls, recv_errors, pending,
                   send_returns, closes, codecVars, clientVars, cryptVars, relVars>>

\* The number of pings written
Pings == Len(SelectSeq(ws_out, LAMBDA m : m.kind = "ping"))

\* The ping loop: the interval ticks, lines 166-172
PingTick ==
    /\ task.ping = "tick"
    /\ Pings < MaxPings
    /\ task' = [task EXCEPT !.ping = IF ~is_open THEN "stopped" ELSE "lock"]
    /\ UNCHANGED <<is_open, connection, ws_lock, retry_count, handlers, ws_in,
                   ws_out, on_message_calls, on_error_calls, recv_errors,
                   pending, send_returns, closes, codecVars, clientVars,
                   cryptVars, relVars>>

\* The ping loop: connection.lock().await, line 173
PingLock ==
    /\ task.ping = "lock"
    /\ Mutex_lock(ws_lock)
    /\ ws_lock' = "ping"
    /\ task' = [task EXCEPT !.ping = "send"]
    /\ UNCHANGED <<is_open, connection, retry_count, handlers, ws_in, ws_out,
                   on_message_calls, on_error_calls, recv_errors, pending,
                   send_returns, closes, codecVars, clientVars, cryptVars, relVars>>

\* The ping loop: ws.send(message) completes, lines 174-177
PingSend ==
    /\ task.ping = "send"
    /\ \E ok \in BOOLEAN :
           IF ok
           THEN /\ ws_out' = Append(ws_out, PingMessage)
                /\ task' = [task EXCEPT !.ping = "tick"]
           ELSE /\ UNCHANGED ws_out
                /\ task' = [task EXCEPT !.ping = "failed"]
    /\ ws_lock' = "free"
    /\ UNCHANGED <<is_open, connection, retry_count, handlers, ws_in,
                   on_message_calls, on_error_calls, recv_errors, pending,
                   send_returns, closes, codecVars, clientVars, cryptVars, relVars>>

\* send_message from its call to connection.lock().await, lines 135-146
SendMessage ==
    /\ task.send = "idle"
    /\ Len(send_returns) < MaxSends
    /\ \E message \in WebSocketMessages :
           IF ~is_open
           THEN /\ send_returns' = Append(send_returns, "Ok")
                /\ UNCHANGED <<task, pending>>
           ELSE IF connection = "Some"
           THEN /\ pending' = message
                /\ task' = [task EXCEPT !.send = "lock"]
                /\ UNCHANGED send_returns
           ELSE /\ send_returns' = Append(send_returns, "Connection is not open")
                /\ UNCHANGED <<task, pending>>
    /\ UNCHANGED <<is_open, connection, ws_lock, retry_count, handlers, ws_in,
                   ws_out, on_message_calls, on_error_calls, recv_errors,
                   closes, codecVars, clientVars, cryptVars, relVars>>

\* send_message: connection.lock().await returns; the guard of write_lock
\* is bound to _ and dropped at once, lines 146-147
SendLock ==
    /\ task.send = "lock"
    /\ Mutex_lock(ws_lock)
    /\ ws_lock' = "send"
    /\ task' = [task EXCEPT !.send = "send"]
    /\ UNCHANGED <<is_open, connection, retry_count, handlers, ws_in, ws_out,
                   on_message_calls, on_error_calls, recv_errors, pending,
                   send_returns, closes, codecVars, clientVars, cryptVars, relVars>>

\* send_message: ws.send(message) completes, lines 148-155
SendWrite ==
    /\ task.send = "send"
    /\ \E ok \in BOOLEAN :
           ws_out' = IF ok THEN Append(ws_out, pending) ELSE ws_out
    /\ send_returns' = Append(send_returns, "Ok")
    /\ pending' = NoPending
    /\ ws_lock' = "free"
    /\ task' = [task EXCEPT !.send = "idle"]
    /\ UNCHANGED <<is_open, connection, retry_count, handlers, ws_in,
                   on_message_calls, on_error_calls, recv_errors, closes,
                   codecVars, clientVars, cryptVars, relVars>>

\* close, lines 131-133
ChannelClose ==
    /\ task.send = "idle"
    /\ closes < MaxCloses
    /\ closes' = closes + 1
    /\ UNCHANGED <<is_open, connection, ws_lock, retry_count, task, handlers,
                   ws_in, ws_out, on_message_calls, on_error_calls,
                   recv_errors, pending, send_returns, codecVars, clientVars,
                   cryptVars, relVars>>

ChannelSpecInit == CodecIdle /\ ClientIdle /\ EncrypterIdle /\ ReliableInit /\ ChannelInit

ChannelNext ==
    \/ SetOnMessage
    \/ SetOnError
    \/ ChannelOpen
    \/ ReceiveLock
    \/ ReceiveMessage
    \/ ReceiveError
    \/ ReceiveNone
    \/ PingTick
    \/ PingLock
    \/ PingSend
    \/ SendMessage
    \/ SendLock
    \/ SendWrite
    \/ ChannelClose

SpecChannel == ChannelSpecInit /\ [][ChannelNext]_vars

(***************************************************************************)
(* Claims about the web socket channel                                     *)
(***************************************************************************)
\* The bytes of the binary and text messages received while on_message was set
Deliverable ==
    LET kept == SelectSeq(ws_in, LAMBDA r : r.handler /\ (is_binary(r.message)
                                                          \/ is_text(r.message)))
    IN  [i \in 1..Len(kept) |-> kept[i].message.data]

\* C13: on_message has been called exactly once for every binary or text
\* message the receive loop has taken from the web socket while the handler
\* was set, with the bytes of that message, in the order received.
C13_InboundDelivery == on_message_calls = Deliverable

\* The tasks with a write to the connection in progress
Writers == {t \in {"ping", "send"} : task[t] = "send"}

\* C14: at no time do the ping task and a send_message call both have a
\* write to the connection in progress.
C14_OneWriter == Cardinality(Writers) <= 1

\* A send_message call is writing while the ping task waits for the connection
C14_Witness == task.send = "send" /\ task.ping = "lock" /\ ws_lock = "send"

\* C15: on_error is called at most once, and only by the pass of the receive
\* loop in which retry_count reaches RETRY_ATTEMPT; after fewer errors the
\* loop has not given up and on_error has not been called; once it has been
\* called the receive loop takes nothing more from the web socket.
C15_SingleTerminalError ==
    [][/\ on_error_calls' <= 1
       /\ on_error_calls' = 1 =>
              /\ recv_errors' = RETRY_ATTEMPT
              /\ retry_count' = RETRY_ATTEMPT
              /\ task'.receive = "exhausted"
       /\ recv_errors' < RETRY_ATTEMPT =>
              /\ on_error_calls' = 0
              /\ task'.receive \in {"none", "loop", "next", "ended"}
       /\ on_error_calls = 1 =>
              /\ ws_in' = ws_in
              /\ recv_errors' = recv_errors
              /\ on_message_calls' = on_message_calls
              /\ task'.receive = task.receive]_vars

\* on_error has been called, after messages were received between the errors
C15_Witness ==
    /\ on_error_calls = 1
    /\ recv_errors = RETRY_ATTEMPT
    /\ Len(ws_in) = MaxFrames
    /\ task.receive = "exhausted"

\* C16: when the receive loop gives up at the retry limit the channel is
\* closed (is_open is false); a send_message called after that writes
\* nothing, and the ping task stops at its next tick.
C16_ExhaustionCloses ==
    [][/\ task'.receive = "exhausted" => ~is_open'
       /\ (task.receive = "exhausted" /\ task.send = "idle") => task'.send = "idle"
       /\ (task.receive = "exhausted" /\ task.ping = "tick")
              => task'.ping \in {"tick", "stopped"}]_vars

\* The fields of the channel and what its tasks have done
channelFields ==
    <<is_open, connection, ws_lock, retry_count, task, handlers, ws_in, ws_out,
      on_message_calls, on_error_calls, recv_errors, pending, send_returns>>

\* C17: once close() has returned the channel is closed and stays closed: a
\* send_message called after it writes nothing, the receive loop and the
\* ping loop stop at their next pass, and another close() changes nothing.
C17_CloseIsTerminal ==
    [][/\ closes' > 0 => ~is_open'
       /\ (closes > 0 /\ task.send = "idle") => task'.send = "idle"
       /\ (closes > 0 /\ task.receive = "loop")
              => task'.receive \in {"loop", "stopped"}
       /\ (closes > 0 /\ task.ping = "tick") => task'.ping \in {"tick", "stopped"}
       /\ (closes > 0 /\ closes' > closes) => UNCHANGED channelFields]_vars

(***************************************************************************)
(* The Encrypter (encryption/encrypter.rs). AES-256-GCM is modelled by a   *)
(* keyed stream added to the plaintext and a 16-byte tag computed from the *)
(* key, the nonce and the ciphertext: for the keys and nonces drawn here a *)
(* tag verifies only under the key and nonce it was computed with.         *)
(***************************************************************************)
NONCE_SIZE == 12

KMS_KEY_SIZE_IN_BYTES == 64

\* The length of the tag Aes256Gcm appends
TAG_SIZE == 16

\* Number of encrypt calls in a run
MaxEncrypts == 2

\* Number of decrypt calls in a run
MaxDecrypts == 1

Ok(v) == [status |-> "Ok", value |-> v]

Err(text) == [status |-> "Err", error |-> text]

\* The plaintext data keys KMS returns: two different halves, and a key whose
\* halves are equal
DataKeys ==
    {[i \in 1..KMS_KEY_SIZE_IN_BYTES |-> IF i <= 32 THEN 1 ELSE 2],
     [i \in 1..KMS_KEY_SIZE_IN_BYTES |-> 3]}

\* What kms_generate_data_key returns: the data key and its ciphertext blob
Blobs ==
    {[status |-> "Some", plain_text |-> key, cipher_text |-> Repeat(200 + key[1], 4)] :
         key \in DataKeys}

\* What OsRng.fill_bytes leaves in the nonce
Nonces == {Repeat(1, NONCE_SIZE), Repeat(2, NONCE_SIZE)}

\* The payloads encrypted: "ls" and the empty payload
PlainTexts == {<<108, 115>>, <<>>}

\* generate_encryption_key with the halves of the data key exchanged
generate_encryption_key_swapped(response) ==
    LET key_size == Len(response.plain_text) \div 2
    IN  [status |-> "Some",
         encryption_key |-> SliceFrom(response.plain_text, key_size),
         decryption_key |-> Slice(response.plain_text, 0, key_size),
         cipher_text_key |-> response.cipher_text]

\* generate_encryption_key and the fields Encrypter::new fills from it: the
\* halves of the data key and the ciphertext blob
generate_encryption_key(response) ==
    LET key_size == Len(response.plain_text) \div 2
    IN  [status |-> "Some",
         encryption_key |-> Slice(response.plain_text, 0, key_size),
         decryption_key |-> SliceFrom(response.plain_text, key_size),
         cipher_text_key |-> response.cipher_text]

\* get_encrypted_data_key
get_encrypted_data_key(self) == self.cipher_text_key

\* The i-th byte of the stream of a key and a nonce
KeyStream(key, nonce, i) == (SumBytes(key) + 3 * SumBytes(nonce) + i) % 256

\* The tag of a ciphertext under a key and a nonce
Tag(key, nonce, cipher_text) ==
    LET k == SumBytes(key)
        n == SumBytes(nonce)
        c == SumBytes(cipher_text)
    IN  [j \in 1..TAG_SIZE |-> (k * j + 5 * n + c + Len(cipher_text) + j) % 256]

\* Aes256Gcm::encrypt: the ciphertext and its tag
Aead_encrypt(key, nonce, plain_text) ==
    LET cipher_text == [i \in 1..Len(plain_text) |->
                            (plain_text[i] + KeyStream(key, nonce, i)) % 256]
    IN  cipher_text \o Tag(key, nonce, cipher_text)

\* Aes256Gcm::decrypt: an error unless the tag verifies
Aead_decrypt(key, nonce, input) ==
    IF Len(input) < TAG_SIZE THEN Err("aead::Error")
    ELSE LET cipher_text == Slice(input, 0, Len(input) - TAG_SIZE)
             tag == SliceFrom(input, Len(input) - TAG_SIZE)
         IN  IF tag # Tag(key, nonce, cipher_text) THEN Err("aead::Error")
             ELSE Ok([i \in 1..Len(cipher_text) |->
                          (cipher_text[i] + 256 - KeyStream(key, nonce, i)) % 256])

\* encrypt with the nonce left out of the result
encrypt_without_nonce(key, nonce, plain_text) == Ok(Aead_encrypt(key, nonce, plain_text))

\* encrypt, with the nonce OsRng gave it
encrypt(key, nonce, plain_text) == Ok(nonce \o Aead_encrypt(key, nonce, plain_text))

\* decrypt: the slice cipher_text[..NONCE_SIZE] panics on a shorter input
decrypt(key, cipher_text) ==
    IF Len(cipher_text) < NONCE_SIZE THEN Panicked
    ELSE LET nonce == Slice(cipher_text, 0, NONCE_SIZE)
             cipher_text_without_nonce == SliceFrom(cipher_text, NONCE_SIZE)
             decrypted_data == Aead_decrypt(key, nonce, cipher_text_without_nonce)
         IN  IF decrypted_data.status = "Ok" THEN decrypted_data
             ELSE Err("Unable to decrypt")

\* b with its last byte changed
FlipLast(b) == [i \in 1..Len(b) |-> IF i = Len(b) THEN (b[i] + 1) % 256 ELSE b[i]]

\* What decrypt is given: an output of this Encrypter, one with its last
\* byte changed, what the peer encrypted under this Encrypter's decryption
\* key, and buffers of 0, 5, 12 and 20 bytes
CipherTexts ==
    {encrypted[k].result.value : k \in 1..Len(encrypted)}
    \cup {FlipLast(encrypted[k].result.value) : k \in 1..Len(encrypted)}
    \cup {nonce \o Aead_encrypt(encrypter.decryption_key, nonce, plain_text) :
              nonce \in Nonces, plain_text \in PlainTexts}
    \cup {<<>>, Repeat(7, 5), Repeat(7, NONCE_SIZE), Repeat(7, 20)}

\* Encrypter::new, once KMS has returned the data key
EncrypterNew ==
    /\ encrypter.status = "None"
    /\ \E response \in Blobs :
           /\ blobs' = response
           /\ encrypter' = generate_encryption_key(response)
    /\ UNCHANGED <<encrypted, decrypted, codecVars, clientVars, chanVars, relVars>>

\* encrypt
Encrypt ==
    /\ encrypter.status = "Some"
    /\ Len(encrypted) < MaxEncrypts
    /\ \E plain_text \in PlainTexts, nonce \in Nonces :
           encrypted' = Append(encrypted,
                               [plain_text |-> plain_text,
                                nonce |-> nonce,
                                result |-> encrypt(encrypter.encryption_key, nonce,
                                                   plain_text)])
    /\ UNCHANGED <<blobs, encrypter, decrypted, codecVars, clientVars, chanVars, relVars>>

\* decrypt
Decrypt ==
    /\ encrypter.status = "Some"
    /\ Len(decrypted) < MaxDecrypts
    /\ \E cipher_text \in CipherTexts :
           decrypted' = Append(decrypted,
                               [cipher_text |-> cipher_text,
                                result |-> decrypt(encrypter.decryption_key,
                                                   cipher_text)])
    /\ UNCHANGED <<blobs, encrypter, encrypted, codecVars, clientVars, chanVars, relVars>>

EncrypterInit ==
    /\ CodecIdle
    /\ ClientIdle
    /\ ChannelIdle
    /\ ReliableInit
    /\ blobs = [status |-> "None"]
    /\ encrypter = [status |-> "None"]
    /\ encrypted = <<>>
    /\ decrypted = <<>>

EncrypterNext ==
    \/ EncrypterNew
    \/ Encrypt
    \/ Decrypt

SpecEncrypter == EncrypterInit /\ [][EncrypterNext]_vars

(***************************************************************************)
(* Claims about the Encrypter                                              *)
(***************************************************************************)
\* C18: decrypt, given what encrypt of the same Encrypter returned for a
\* payload, succeeds and returns that payload.
C18_EncryptionRoundTrip ==
    \A k \in 1..Len(encrypted), d \in 1..Len(decrypted) :
        decrypted[d].cipher_text = encrypted[k].result.value
            => decrypted[d].result = Ok(encrypted[k].plain_text)

\* Each output of encrypt is the 12-byte nonce of the call followed by the
\* ciphertext and tag of the payload under the encryption key and that nonce
OutputLayout ==
    \A k \in 1..Len(encrypted) :
        LET e == encrypted[k]
        IN  /\ Len(e.nonce) = NONCE_SIZE
            /\ e.result = Ok(e.nonce \o Aead_encrypt(encrypter.encryption_key, e.nonce,
                                                     e.plain_text))
            /\ Len(e.result.value) = NONCE_SIZE + Len(e.plain_text) + TAG_SIZE

TagVerifies(input) ==
    Aead_decrypt(encrypter.decryption_key, Slice(input, 0, NONCE_SIZE),
                 SliceFrom(input, NONCE_SIZE)).status = "Ok"

\* C20: decrypt never aborts, and returns an error for every input shorter
\* than the nonce and for every input whose tag does not verify under the
\* decryption key.
C20_DecryptFailsWithError ==
    \A d \in 1..Len(decrypted) :
        LET input == decrypted[d].cipher_text
            outcome == decrypted[d].result
        IN  /\ outcome.status # "Panic"
            /\ Len(input) < NONCE_SIZE => outcome.status = "Err"
            /\ (Len(input) >= NONCE_SIZE /\ ~TagVerifies(input))
                   => outcome.status = "Err"

\* The keys are the halves of the data key KMS returned, the ciphertext blob
\* is kept as returned, and every call has used the half that is its key
KeysAreHalves ==
    encrypter.status = "Some" =>
        LET first == Slice(blobs.plain_text, 0, KMS_KEY_SIZE_IN_BYTES \div 2)
            second == SliceFrom(blobs.plain_text, KMS_KEY_SIZE_IN_BYTES \div 2)
        IN  /\ Len(blobs.plain_text) = KMS_KEY_SIZE_IN_BYTES
            /\ encrypter.encryption_key = first
            /\ encrypter.decryption_key = second
            /\ get_encrypted_data_key(encrypter) = blobs.cipher_text
            /\ \A k \in 1..Len(encrypted) :
                   encrypted[k].result.value =
                       encrypted[k].nonce \o Aead_encrypt(first, encrypted[k].nonce,
                                                          encrypted[k].plain_text)
            /\ \A d \in 1..Len(decrypted) :
                   decrypted[d].result = decrypt(second, decrypted[d].cipher_text)

\* C21: the encryption key is the first half and the decryption key the
\* second half of the data key, the ciphertext blob is kept unchanged and is
\* not the key of any encrypt or decrypt call, and no operation changes the
\* three once the Encrypter is constructed.
C21_SessionKeys ==
    /\ []KeysAreHalves
    /\ [][encrypter.status = "Some" => encrypter' = encrypter]_vars

\* An Encrypter whose halves differ has encrypted and decrypted
C21_Witness ==
    /\ encrypter.status = "Some"
    /\ encrypter.encryption_key # encrypter.decryption_key
    /\ Len(encrypted) > 0
    /\ Len(decrypted) > 0

(***************************************************************************)
(* The data channel's outgoing buffer.  streaming.rs declares DataChannel,  *)
(* ListMessageBuffer and StreamingMessage and config.rs their constants;    *)
(* the operations on them are taken from the specification's description   *)
(* of ReliableChannel: send, onAcknowledge and the retransmission sweep.   *)
(***************************************************************************)
\* Stands for OUTGOING_MESSAGE_BUFFER_CAPACITY (10000)
OutgoingCapacity == 2

\* Stands for RESEND_MAX_ATTEMPT (3000)
ResendMaxAttempt == 1

\* The gains of the round trip time and of its variation are 1/8 and 1/4
RTT_CONSTANT_INVERSE == 8

RTTV_CONSTANT_INVERSE == 4

\* The sends and the clock are bounded so that the buffer overflows once and
\* a message runs out of resend attempts
MaxStreamSends == OutgoingCapacity + 1

MaxSystemTime ==
    (ResendMaxAttempt + 1) * (DEFAULT_TRANSMISSION_TIMEOUT + RESEND_SLEEP_INTERVAL)

StreamPayloads == {<<108>>}

Min(a, b) == IF a <= b THEN a ELSE b

Max(a, b) == IF a >= b THEN a ELSE b

Abs(a) == IF a >= 0 THEN a ELSE 0 - a

\* struct StreamingMessage
StreamingMessage(content, sequence_no, sent_time) ==
    [content |-> content, sequence_number |-> sequence_no, last_sent_time |-> sent_time,
     resend_attempt |-> None]

\* The frame bytes of a stream message: its sequence number and its payload
StreamContent(sequence_no, payload) == to_be_bytes_u32(sequence_no) \o payload

\* What the transport is handed
Frame(message) == [sequence_number |-> message.sequence_number, content |-> message.content]

SequenceNumbers(buffer) == {buffer[i].sequence_number : i \in 1..Len(buffer)}

RemoveAt(buffer, i) == SubSeq(buffer, 1, i - 1) \o SubSeq(buffer, i + 1, Len(buffer))

\* The number of times x occurs in the sequence
Count(seq, x) == Cardinality({i \in 1..Len(seq) : seq[i] = x})

\* Storing without a capacity
store_unbounded(buffer, message) == Append(buffer, message)

\* send: the message is stored; at capacity the oldest entry is evicted
store(buffer, message) ==
    IF Len(buffer) >= OutgoingCapacity THEN Append(Tail(buffer), message)
    ELSE Append(buffer, message)

\* An acknowledgment that removes every entry up to the acknowledged one
remove_through(buffer, sequence_no) ==
    LET Later(message) == message.sequence_number > sequence_no
    IN  SelectSeq(buffer, Later)

\* onAcknowledge: the entry with the acknowledged sequence number is removed
remove_acknowledged(buffer, sequence_no) ==
    LET at == {i \in 1..Len(buffer) : buffer[i].sequence_number = sequence_no}
    IN  IF at = {} THEN buffer ELSE RemoveAt(buffer, CHOOSE i \in at : TRUE)

\* onAcknowledge: the round trip statistics after a sample
update_round_trip(stats, sample) ==
    LET variation == ((RTTV_CONSTANT_INVERSE - 1) * stats.round_trip_time_variation
                      + Abs(stats.round_trip_time - sample)) \div RTTV_CONSTANT_INVERSE
        smoothed == ((RTT_CONSTANT_INVERSE - 1) * stats.round_trip_time + sample)
                    \div RTT_CONSTANT_INVERSE
    IN  [round_trip_time |-> smoothed,
         round_trip_time_variation |-> variation,
         retransmission_timeout |->
             Min(smoothed + Max(CLOCK_GRANULARITY, 4 * variation), MAX_TRANSMISSION_TIMEOUT)]

Attempts(message) ==
    IF message.resend_attempt.is_some THEN message.resend_attempt.value ELSE 0

\* Retransmission sweep: the message has waited longer than the timeout
resend_due(message, now, timeout) == now - message.last_sent_time > timeout

\* The attempts run out one resend early
resend_exhausted_early(message) == Attempts(message) + 1 >= ResendMaxAttempt

\* Retransmission sweep: the incremented resend_attempt exceeds the maximum
resend_exhausted(message) == Attempts(message) + 1 > ResendMaxAttempt

\* Retransmission sweep: the buffer after the sweep
swept(buffer, now, timeout) ==
    LET Kept(message) == ~(resend_due(message, now, timeout) /\ resend_exhausted(message))
        kept == SelectSeq(buffer, Kept)
    IN  [i \in 1..Len(kept) |->
            IF resend_due(kept[i], now, timeout)
            THEN [kept[i] EXCEPT !.last_sent_time = now,
                                 !.resend_attempt = Some(Attempts(kept[i]) + 1)]
            ELSE kept[i]]

\* Retransmission sweep: the frames it resends, in buffer order
resent(buffer, now, timeout) ==
    LET Due(message) == resend_due(message, now, timeout) /\ ~resend_exhausted(message)
        due == SelectSeq(buffer, Due)
    IN  [i \in 1..Len(due) |-> Frame(due[i])]

\* Retransmission sweep: the sequence numbers it gives up on, in buffer order
exhausted(buffer, now, timeout) ==
    LET Given_up(message) == resend_due(message, now, timeout) /\ resend_exhausted(message)
        gone == SelectSeq(buffer, Given_up)
    IN  [i \in 1..Len(gone) |-> gone[i].sequence_number]

\* send(payload): the next sequence number, the entry stored, the frame
\* handed to the transport
StreamSend ==
    /\ stream_data_sequence_number < MaxStreamSends
    /\ \E payload \in StreamPayloads :
           LET message == StreamingMessage(
                              StreamContent(stream_data_sequence_number, payload),
                              stream_data_sequence_number, system_time)
               stored == store(outgoing_message_buffer, message)
           IN  /\ outgoing_message_buffer' = stored
               /\ transport' = Append(transport, Frame(message))
               /\ last_op' = [op |-> "send",
                              sequence_number |-> stream_data_sequence_number,
                              removed |-> IF Len(outgoing_message_buffer) >= Len(stored)
                                          THEN <<outgoing_message_buffer[1].sequence_number>>
                                          ELSE <<>>,
                              result |-> "Ok"]
    /\ stream_data_sequence_number' = stream_data_sequence_number + 1
    /\ UNCHANGED <<round_trip, system_time, failures,
                   codecVars, clientVars, chanVars, cryptVars>>

\* onAcknowledge for any sequence number, buffered or not
OnAcknowledge ==
    \E sequence_no \in 0..MaxStreamSends :
        LET at == {i \in 1..Len(outgoing_message_buffer) :
                       outgoing_message_buffer[i].sequence_number = sequence_no}
        IN  /\ outgoing_message_buffer' =
                   remove_acknowledged(outgoing_message_buffer, sequence_no)
            /\ round_trip' =
                   IF at = {} THEN round_trip
                   ELSE update_round_trip(
                            round_trip,
                            system_time
                                - outgoing_message_buffer[CHOOSE i \in at : TRUE].last_sent_time)
            /\ last_op' = [op |-> "ack", sequence_number |-> sequence_no,
                           removed |-> IF at = {} THEN <<>> ELSE <<sequence_no>>,
                           result |-> "Ok"]
            /\ UNCHANGED <<stream_data_sequence_number, system_time, transport, failures,
                           codecVars, clientVars, chanVars, cryptVars>>

\* One period of the retransmission sweep
ResendTick ==
    /\ system_time + RESEND_SLEEP_INTERVAL <= MaxSystemTime
    /\ LET now == system_time + RESEND_SLEEP_INTERVAL
           timeout == round_trip.retransmission_timeout
           gone == exhausted(outgoing_message_buffer, now, timeout)
       IN  /\ system_time' = now
           /\ outgoing_message_buffer' = swept(outgoing_message_buffer, now, timeout)
           /\ transport' = transport \o resent(outgoing_message_buffer, now, timeout)
           /\ failures' = failures \o gone
           /\ last_op' = [op |-> "sweep", sequence_number |-> -1, removed |-> gone,
                          result |-> IF gone = <<>> THEN "Ok" ELSE "RetransmissionExhausted"]
    /\ UNCHANGED <<stream_data_sequence_number, round_trip,
                   codecVars, clientVars, chanVars, cryptVars>>

ReliableSpecInit == CodecIdle /\ ClientIdle /\ ChannelIdle /\ EncrypterIdle /\ ReliableInit

ReliableNext ==
    \/ StreamSend
    \/ OnAcknowledge
    \/ ResendTick

SpecReliable == ReliableSpecInit /\ [][ReliableNext]_vars

\* The step is an onAcknowledge for the sequence number
AcknowledgeStep(sequence_no) ==
    /\ last_op'.op = "ack"
    /\ last_op'.sequence_number = sequence_no
    /\ last_op' # last_op

\* C22: an acknowledgment for a buffered sequence number removes that entry
\* and no other; one for a sequence number that is not buffered leaves the
\* buffer and every counter unchanged; neither raises an error.
C22_AcknowledgeRemovesOne ==
    [][\A sequence_no \in 0..MaxStreamSends :
           AcknowledgeStep(sequence_no) =>
               /\ last_op'.result = "Ok"
               /\ failures' = failures
               /\ IF sequence_no \in SequenceNumbers(outgoing_message_buffer)
                  THEN /\ Len(outgoing_message_buffer') = Len(outgoing_message_buffer) - 1
                       /\ sequence_no \notin SequenceNumbers(outgoing_message_buffer')
                       /\ \A i \in 1..Len(outgoing_message_buffer) :
                              outgoing_message_buffer[i].sequence_number # sequence_no =>
                                  \E j \in 1..Len(outgoing_message_buffer') :
                                      outgoing_message_buffer'[j] = outgoing_message_buffer[i]
                  ELSE UNCHANGED <<outgoing_message_buffer, stream_data_sequence_number,
                                   round_trip, system_time, transport, failures>>]_vars

\* An acknowledgment has removed an entry that was not the oldest one
C22_Witness ==
    /\ last_op.op = "ack"
    /\ last_op.removed # <<>>
    /\ \E i \in 1..Len(outgoing_message_buffer) :
           outgoing_message_buffer[i].sequence_number < last_op.sequence_number

\* No failure is reported twice and every frame of a sequence number carries
\* the same bytes
ResendsAreIdentical ==
    /\ \A k \in 1..Len(failures) : Count(failures, failures[k]) = 1
    /\ \A a, b \in 1..Len(transport) :
           transport[a].sequence_number = transport[b].sequence_number =>
               transport[a].content = transport[b].content

\* What a period of the sweep does with one buffered message
SweepOf(message) ==
    LET sequence_no == message.sequence_number
        frame == [sequence_number |-> sequence_no, content |-> message.content]
    IN  IF system_time' - message.last_sent_time > round_trip.retransmission_timeout
        THEN IF Attempts(message) + 1 > ResendMaxAttempt
             THEN /\ sequence_no \notin SequenceNumbers(outgoing_message_buffer')
                  /\ Count(failures', sequence_no) = 1
                  /\ Count(failures, sequence_no) = 0
                  /\ Count(transport', frame) = Count(transport, frame)
             ELSE /\ \E j \in 1..Len(outgoing_message_buffer') :
                         outgoing_message_buffer'[j] =
                             [message EXCEPT !.last_sent_time = system_time',
                                             !.resend_attempt = Some(Attempts(message) + 1)]
                  /\ Count(transport', frame) = Count(transport, frame) + 1
                  /\ Count(failures', sequence_no) = 0
        ELSE /\ \E j \in 1..Len(outgoing_message_buffer') :
                    outgoing_message_buffer'[j] = message
             /\ Count(transport', frame) = Count(transport, frame)

BufferBounded ==
    /\ Len(outgoing_message_buffer) <= OutgoingCapacity
    /\ \A i, j \in 1..Len(outgoing_message_buffer) :
           i < j => outgoing_message_buffer[i].sequence_number
                        < outgoing_message_buffer[j].sequence_number

\* C24: the buffer never holds more than its capacity, its entries are in
\* increasing sequence order, and a send into a full buffer evicts the
\* oldest entry and keeps the others and the new one.
C24_CapacityEviction ==
    /\ []BufferBounded
    /\ [][stream_data_sequence_number' # stream_data_sequence_number =>
              /\ outgoing_message_buffer'[Len(outgoing_message_buffer')].sequence_number
                     = stream_data_sequence_number
              /\ IF Len(outgoing_message_buffer) = OutgoingCapacity
                 THEN /\ Len(outgoing_message_buffer') = OutgoingCapacity
                      /\ \A i \in 2..Len(outgoing_message_buffer) :
                             outgoing_message_buffer'[i - 1] = outgoing_message_buffer[i]
                 ELSE \A i \in 1..Len(outgoing_message_buffer) :
                          outgoing_message_buffer'[i] = outgoing_message_buffer[i]]_vars

\* A send into a full buffer has evicted the oldest entry
C24_Witness ==
    /\ last_op.op = "send"
    /\ last_op.removed # <<>>
    /\ Len(outgoing_message_buffer) = OutgoingCapacity
    /\ outgoing_message_buffer[1].sequence_number > last_op.removed[1]

(***************************************************************************)
(* Frames as the agent writes them: with the payload_type field            *)
(* (header_length 116) and, from older agents, without it (header_length   *)
(* 112), handed to each decoder.                                           *)
(***************************************************************************)
\* The header length of a frame that omits the payload_type field
LEGACY_HEADER_LENGTH == 112

\* The frame of an envelope with a header of the given length
AgentFrame(e, header_length) ==
    LET frame == SpacePadded(serialize_client_message(e))
    IN  IF header_length = LEGACY_HEADER_LENGTH
        THEN to_be_bytes_u32(LEGACY_HEADER_LENGTH)
                 \o Slice(frame, HL_LENGTH, PAYLOAD_TYPE_OFFSET)
                 \o SliceFrom(frame, PAYLOAD_LENGTH_OFFSET)
        ELSE frame

AgentFramesInit ==
    /\ env \in Envelopes
    /\ wire = <<>>
    /\ result = NoResult
    /\ pc = [at |-> "start", enc |-> "none", dec |-> "none"]
    /\ tampered = {}
    /\ ClientIdle
    /\ ChannelIdle
    /\ EncrypterIdle
    /\ ReliableInit

\* The agent sends the envelope, with or without the payload_type field
AgentWrite ==
    /\ pc.at = "start"
    /\ \E header_length \in {LEGACY_HEADER_LENGTH, PAYLOAD_LENGTH_OFFSET} :
           wire' = AgentFrame(env, header_length)
    /\ pc' = [pc EXCEPT !.at = "wire", !.enc = "agent"]
    /\ UNCHANGED <<env, result, tampered, clientVars, chanVars, cryptVars, relVars>>

AgentFramesNext ==
    \/ AgentWrite
    \/ Deserialize
    \/ BytesToMessage

SpecAgentFrames == AgentFramesInit /\ [][AgentFramesNext]_vars

\* The code of the payload type a decoder returned
PayloadTypeCode(payload_type) ==
    IF pc.dec = "bytes_to_message" THEN EPayloadType_as_i32(payload_type)
    ELSE PayloadType_into_u32(payload_type)

\* C25: a decoder reads payload_length at offset header_length and the
\* payload at header_length + 4; for header_length 112 the payload type is
\* Null, for 116 it is the code at offset 112.
C25_LegacyHeader ==
    (pc.at = "done" /\ pc.enc = "agent") =>
        LET header_length == HeaderLengthOf(wire)
        IN  /\ result.status = "Ok"
            /\ PayloadTypeCode(result.msg.payload_type) =
                   IF header_length = LEGACY_HEADER_LENGTH THEN 0
                   ELSE read_u32(Slice(wire, PAYLOAD_TYPE_OFFSET, PAYLOAD_LENGTH_OFFSET))
            /\ result.msg.payload_length =
                   read_u32(Slice(wire, header_length, header_length + PAYLOAD_LENGTH_LENGTH))
            /\ result.msg.payload = SliceFrom(wire, header_length + PAYLOAD_LENGTH_LENGTH)

\* C26: a frame with the payload_type field whose code is none of 0..12
\* makes the decoder return an error: it neither succeeds nor aborts.
C26_PayloadTypeRejected ==
    (/\ pc.at = "done"
     /\ Len(wire) >= PAYLOAD_OFFSET
     /\ HeaderLengthOf(wire) = PAYLOAD_LENGTH_OFFSET
     /\ read_u32(Slice(wire, PAYLOAD_TYPE_OFFSET, PAYLOAD_LENGTH_OFFSET))
            >= Len(PayloadTypeVariants))
        => result.status = "Err"

\* The flags field of a frame
FrameFlags(b) == read_u64(Slice(b, FLAGS_OFFSET, FLAGS_OFFSET + FLAGS_LENGTH))

\* C27: of the stream-data frames the client has sent, the one with the base
\* sequence number 0 has flags bit 0 (SYN) set and every one with a greater
\* sequence number has it clear.
C27_SynOnlyOnFirst ==
    \A i \in 1..Len(sent) :
        IsStreamDataFrame(sent[i]) =>
            (FrameFlags(sent[i].data) % 2 = 1 <=> FrameSequenceNumber(sent[i].data) = 0)

\* C28: whenever the receive loop has taken a message from the web socket
\* its retry_count is 0, so that only consecutive errors are counted.
C28_RetryCountsConsecutive ==
    [][Len(ws_in') > Len(ws_in) => retry_count' = 0]_vars

\* The tasks run when they can, the connection's Mutex is fair to its
\* waiters and a write to the connection ends; nothing makes the peer send
\* a frame or the ping interval elapse.
ChannelFairness ==
    /\ WF_vars(ReceiveLock)
    /\ SF_vars(PingLock)
    /\ WF_vars(PingSend)
    /\ SF_vars(SendLock)
    /\ WF_vars(SendWrite)

SpecChannelFair == ChannelSpecInit /\ [][ChannelNext]_vars /\ ChannelFairness

\* C29: a send_message call that waits for the connection obtains it and
\* returns, whether or not another frame arrives.
C29_SendCompletes == (task.send = "lock") ~> (task.send = "idle")

\* C30: send_message returns Ok exactly when it has written the message or
\* the channel was not open, and writes nothing when the channel is not open.
C30_SendReportsOutcome ==
    [][Len(send_returns') > Len(send_returns) =>
           LET returned == send_returns'[Len(send_returns')]
               written == ws_out' # ws_out
           IN  /\ returned = "Ok" <=> (written \/ ~is_open)
               /\ ~is_open => ~written]_vars

====
